---- MODULE Spec2Model ----
(***************************************************************************)
(* Drone survey backend: the mission and drone REST handlers               *)
(* (app/blueprints/missions.py, app/blueprints/drones.py), the standalone  *)
(* flight simulator (simulator.py) that shares their database, and the     *)
(* circuit breaker of app/core/error_handling.py.                          *)
(*                                                                         *)
(* Distances are metres along the line the waypoints lie on.  Battery is   *)
(* counted in units of 1/600 percent, so that the per-second drains        *)
(* 0.8/60 and 0.3/60 percent are the integers 8 and 3.                     *)
(***************************************************************************)
EXTENDS Integers, Sequences, FiniteSets, TLC

\* ---------------------------------------------------------------- bounds
NumDrones == 1
NumMissions == 2
NumWaypoints == 3
MaxLog == 2
MaxNow == 240

Drones == 1..NumDrones
Missions == 1..NumMissions
NoDrone == 0
NoPos == -1

\* ------------------------------------------------------ program constants
BatteryUnit == 600
flight_speed_mps == 15
battery_consumption_rate == 8
hover_battery_rate == 3
takeoff_landing_rate == 900
EmergencyBattery == 3000
ArrivalRadius == 5
FullBattery == 60000

\* Inputs the environment may supply.
ElapsedChoices == {0, 5}
InitialBatteries == {3040, 6000}
BatteryInputs == {-3000, 3016, 90000}
WaypointSpacing == 100
DroneStatuses == {"available", "in-mission", "maintenance"}
MissionStatuses == {"planned", "in-progress", "paused", "completed", "aborted"}

VARIABLES
    drone,            \* drones table
    mission,          \* missions table
    waypoint,         \* waypoints table: completed flag per mission and order
    mission_log,      \* mission_logs table: message kinds per mission
    active_flights,   \* simulator: drone id -> FlightState
    flight_keys,      \* simulator: insertion order of active_flights
    sim_pc,           \* simulator: position in simulation_loop
    sim_todo,         \* simulator: flights still to update in this tick
    sim_seen,         \* simulator: rows loaded by the running update
    completed_flights,\* simulator: flights to drop at the end of the tick
    emitted,          \* emergency_alert events posted, per mission
    aborted_at_tick,  \* history: missions stored aborted when the tick began
    cb,               \* circuit breaker and its caller
    gen,              \* waypoint generator: one call and its result
    ws,               \* WebSocket manager, the socket rooms, the last event
    am,               \* alert manager, its rules' conditions and its clock
    hc,               \* health checker: registered checks and last results
    seed,             \* demo seeding run: its session and the database it writes
    fleet,            \* fleet optimization: one request, its loop and its response
    cfg,              \* configuration: one construction and its outcome
    crt,              \* create-mission request: its body and its outcome
    mon,              \* background monitoring: flag, thread handle, loops, caller
    operator          \* whether the operator still sends requests

vars == <<drone, mission, waypoint, mission_log, active_flights,
          flight_keys, sim_pc, sim_todo, sim_seen, completed_flights,
          emitted, aborted_at_tick, cb, gen, ws, am, hc, seed, fleet, cfg, crt, mon, operator>>

\* The services of app/services and app/core that the missions, the drones
\* and the simulator do not touch.
svcVars == <<gen, ws, am, hc, seed, fleet, cfg, crt, mon, operator>>

dbVars == <<drone, mission, waypoint, mission_log>>
simVars == <<active_flights, flight_keys, sim_pc, sim_todo, sim_seen,
             completed_flights, emitted, aborted_at_tick>>

\* ------------------------------------------------------------- row types
DeletedDrone == [exists |-> FALSE, status |-> "available", battery |-> 0,
                 pos |-> NoPos]
\* No abort reason stored: the abort endpoint reads a reason from the request
\* but calls mission.abort_mission() without passing it on.
NoReason == ""

DeletedMission == [exists |-> FALSE, status |-> "planned", drone_id |-> NoDrone,
                   progress |-> 0, current_waypoint |-> 0, reason |-> NoReason]
NoFlight == [tracked |-> FALSE]
NoSeen == [drone_id |-> NoDrone]

WaypointOrders == 0..(NumWaypoints - 1)

\* Position of the waypoint with the given order.
WaypointPos(k) == 10 + k * WaypointSpacing

\* Action of the waypoint with the given order: takeoff first, land last.
WaypointAction(k) ==
    IF k = 0 THEN "takeoff"
    ELSE IF k = NumWaypoints - 1 THEN "land" ELSE "capture"

Abs(x) == IF x < 0 THEN -x ELSE x
Max(a, b) == IF a > b THEN a ELSE b
Min(a, b) == IF a < b THEN a ELSE b

\* The stored tables, as one value.
Database == [mission |-> mission, drone |-> drone, waypoint |-> waypoint,
             mission_log |-> mission_log]

\* ------------------------------------------- model methods (app/models)
\* Mission.start_mission(): Planned -> InProgress, no check of the old state.
Mission_start_mission(row) == [row EXCEPT !.status = "in-progress"]

\* Mission.pause_mission(): InProgress -> Paused.
Mission_pause_mission(row) == [row EXCEPT !.status = "paused"]

\* Mission.resume_mission(): Paused -> InProgress.
Mission_resume_mission(row) == [row EXCEPT !.status = "in-progress"]

\* Mission.abort_mission(reason): -> Aborted, and the mission's drone, when
\* it is stored, is released to available.
Mission_abort_mission(db, m, reason) ==
    LET d == db.mission[m].drone_id IN
    [db EXCEPT !.mission[m].status = "aborted",
               !.mission[m].reason = reason,
               !.drone = IF d \in Drones /\ db.drone[d].exists
                         THEN [db.drone EXCEPT ![d].status = "available"]
                         ELSE db.drone]

\* Mission.complete_mission(): -> Completed.
Mission_complete_mission(row) == [row EXCEPT !.status = "completed"]

\* Mission.update_progress(percentage, current_waypoint_id).
Mission_update_progress(row, percentage, wp) ==
    [row EXCEPT !.progress = percentage, !.current_waypoint = wp]

\* Drone.is_available_for_mission().
is_available_for_mission(row) == row.status = "available"

\* Drone.set_status(new_status, notes): writes the status, no validation.
Drone_set_status(row, new_status) == [row EXCEPT !.status = new_status]

\* Drone.update_battery(percentage): clamped to [0, 100].
Drone_update_battery(row, b) ==
    [row EXCEPT !.battery = Max(0, Min(FullBattery, b))]

\* Drone.get_current_mission(): the in-progress missions of the drone.
get_current_mission(d) ==
    {m \in Missions : /\ mission[m].exists
                      /\ mission[m].drone_id = d
                      /\ mission[m].status = "in-progress"}

\* mission.drone: the row the mission's drone_id refers to, when stored.
MissionDrone(m) ==
    IF mission[m].drone_id \in Drones /\ drone[mission[m].drone_id].exists
    THEN mission[m].drone_id ELSE NoDrone

\* ------------------------------------------------- mission API handlers
\* A handler is a function of the stored state: it yields the HTTP status
\* code, the reason of an error, and the tables as its commit leaves them
\* (the tables as they were when it commits nothing).
Response(code, error, db) == [code |-> code, error |-> error, db |-> db]

Rejected(code, error) == Response(code, error, Database)

\* db.session.add(MissionLog.create_log(...)): append to the mission's log.
AddLog(m, kind) == [mission_log EXCEPT ![m] = Append(@, kind)]

\* start_mission without the check of the drone's availability.
start_mission_any_drone(m) ==
    IF ~mission[m].exists THEN Rejected(500, "not_found")
    ELSE IF mission[m].status # "planned" THEN Rejected(400, "status")
    ELSE IF mission[m].drone_id = NoDrone THEN Rejected(400, "no_drone")
    ELSE IF MissionDrone(m) = NoDrone THEN Rejected(400, "drone_unavailable")
    ELSE Response(200, "",
           [mission |-> [mission EXCEPT ![m] = Mission_start_mission(@)],
            drone |-> [drone EXCEPT
                         ![mission[m].drone_id].status = "in-mission"],
            waypoint |-> waypoint,
            mission_log |-> AddLog(m, "started")])

\* POST /<mission_id>/start.  Mission.query.get_or_404 raises NotFound inside
\* the handler's try block, which `except Exception` answers with a 500.
start_mission(m) ==
    IF ~mission[m].exists THEN Rejected(500, "not_found")
    ELSE IF mission[m].status # "planned" THEN Rejected(400, "status")
    ELSE IF mission[m].drone_id = NoDrone THEN Rejected(400, "no_drone")
    ELSE IF \/ MissionDrone(m) = NoDrone
            \/ ~is_available_for_mission(drone[mission[m].drone_id])
    THEN Rejected(400, "drone_unavailable")
    ELSE Response(200, "",
           [mission |-> [mission EXCEPT ![m] = Mission_start_mission(@)],
            drone |-> [drone EXCEPT
                         ![mission[m].drone_id].status = "in-mission"],
            waypoint |-> waypoint,
            mission_log |-> AddLog(m, "started")])

\* pause_mission without the check of the mission's status.
pause_mission_unchecked(m) ==
    IF ~mission[m].exists THEN Rejected(500, "not_found")
    ELSE Response(200, "",
           [mission |-> [mission EXCEPT ![m] = Mission_pause_mission(@)],
            drone |-> drone,
            waypoint |-> waypoint,
            mission_log |-> AddLog(m, "paused")])

\* POST /<mission_id>/pause
pause_mission(m) ==
    IF ~mission[m].exists THEN Rejected(500, "not_found")
    ELSE IF mission[m].status # "in-progress" THEN Rejected(400, "status")
    ELSE Response(200, "",
           [mission |-> [mission EXCEPT ![m] = Mission_pause_mission(@)],
            drone |-> drone,
            waypoint |-> waypoint,
            mission_log |-> AddLog(m, "paused")])

\* POST /<mission_id>/resume
resume_mission(m) ==
    IF ~mission[m].exists THEN Rejected(500, "not_found")
    ELSE IF mission[m].status # "paused" THEN Rejected(400, "status")
    ELSE Response(200, "",
           [mission |-> [mission EXCEPT ![m] = Mission_resume_mission(@)],
            drone |-> drone,
            waypoint |-> waypoint,
            mission_log |-> AddLog(m, "resumed")])

\* abort_mission that grounds the drone for maintenance instead of
\* releasing it.
abort_mission_grounds_drone(m) ==
    IF ~mission[m].exists THEN Rejected(500, "not_found")
    ELSE IF mission[m].status \notin {"in-progress", "paused"}
    THEN Rejected(400, "status")
    ELSE LET db1 == Mission_abort_mission(Database, m, NoReason)
             db2 == IF MissionDrone(m) # NoDrone
                    THEN [db1 EXCEPT
                            !.drone[MissionDrone(m)].status = "maintenance"]
                    ELSE db1
         IN Response(200, "",
                     [db2 EXCEPT !.mission_log = AddLog(m, "aborted")])

\* POST /<mission_id>/abort
abort_mission(m) ==
    IF ~mission[m].exists THEN Rejected(500, "not_found")
    ELSE IF mission[m].status \notin {"in-progress", "paused"}
    THEN Rejected(400, "status")
    ELSE LET db1 == Mission_abort_mission(Database, m, NoReason)
             db2 == IF MissionDrone(m) # NoDrone
                    THEN [db1 EXCEPT
                            !.drone[MissionDrone(m)].status = "available"]
                    ELSE db1
         IN Response(200, "",
                     [db2 EXCEPT !.mission_log = AddLog(m, "aborted")])

\* delete_mission without the in-progress guard.
delete_mission_unchecked(m) ==
    IF ~mission[m].exists THEN Rejected(500, "not_found")
    ELSE Response(200, "",
           [mission |-> [mission EXCEPT ![m] = DeletedMission],
            drone |-> drone,
            waypoint |-> [waypoint EXCEPT
                            ![m] = [k \in WaypointOrders |-> FALSE]],
            mission_log |-> [mission_log EXCEPT ![m] = <<>>]])

\* DELETE /<mission_id>: the waypoints and log entries go with the mission.
delete_mission(m) ==
    IF ~mission[m].exists THEN Rejected(500, "not_found")
    ELSE IF mission[m].status = "in-progress" THEN Rejected(400, "status")
    ELSE Response(200, "",
           [mission |-> [mission EXCEPT ![m] = DeletedMission],
            drone |-> drone,
            waypoint |-> [waypoint EXCEPT
                            ![m] = [k \in WaypointOrders |-> FALSE]],
            mission_log |-> [mission_log EXCEPT ![m] = <<>>]])

\* --------------------------------------------------- drone API handlers
\* delete_drone without the in-mission guard.
delete_drone_unchecked(d) ==
    IF ~drone[d].exists THEN Rejected(404, "not_found")
    ELSE Response(200, "",
           [Database EXCEPT !.drone = [drone EXCEPT ![d] = DeletedDrone]])

\* DELETE /api/v1/drones/<drone_id>
delete_drone(d) ==
    IF ~drone[d].exists THEN Rejected(404, "not_found")
    ELSE IF drone[d].status = "in-mission" THEN Rejected(409, "in_mission")
    ELSE Response(200, "",
           [Database EXCEPT !.drone = [drone EXCEPT ![d] = DeletedDrone]])

\* PUT /api/v1/drones/<drone_id>/status
update_drone_status(d, new_status) ==
    IF ~drone[d].exists THEN Rejected(404, "not_found")
    ELSE IF /\ new_status = "maintenance"
            /\ drone[d].status = "in-mission"
            /\ get_current_mission(d) # {}
    THEN Rejected(409, "in_mission")
    ELSE Response(200, "",
           [Database EXCEPT !.drone =
              [drone EXCEPT ![d] = Drone_set_status(@, new_status)]])

\* PUT /api/v1/drones/<drone_id>/battery
update_drone_battery(d, battery_percentage) ==
    IF ~drone[d].exists THEN Rejected(404, "not_found")
    ELSE Response(200, "",
           [Database EXCEPT !.drone =
              [drone EXCEPT ![d] = Drone_update_battery(@, battery_percentage)]])

\* The serving process handles one request: the handler's commit becomes the
\* stored state, and the simulator is not touched.  A mission's log is kept
\* within MaxLog entries by not pausing it again once it is that long.
Handle(response) ==
    /\ mission' = response.db.mission
    /\ drone' = response.db.drone
    /\ waypoint' = response.db.waypoint
    /\ mission_log' = response.db.mission_log
    /\ UNCHANGED <<simVars, cb, svcVars>>

StartMission(m) == Handle(start_mission(m))
PauseMission(m) == Len(mission_log[m]) < MaxLog /\ Handle(pause_mission(m))
ResumeMission(m) == Handle(resume_mission(m))
AbortMission(m) == Handle(abort_mission(m))
DeleteMission(m) == Handle(delete_mission(m))
DeleteDrone(d) == Handle(delete_drone(d))
UpdateDroneStatus(d, s) == Handle(update_drone_status(d, s))
UpdateDroneBattery(d, b) == Handle(update_drone_battery(d, b))

\* ------------------------------------------------------------ simulator
\* get_active_missions(): in-progress missions with a drone assigned.
get_active_missions ==
    {m \in Missions : /\ mission[m].exists
                      /\ mission[m].status = "in-progress"
                      /\ mission[m].drone_id # NoDrone}

\* initialize_flight_state(mission): None without a drone row, else a flight
\* at the drone's stored position (or the first waypoint), heading for the
\* second waypoint.
initialize_flight_state(m) ==
    LET d == mission[m].drone_id IN
    IF ~drone[d].exists THEN NoFlight
    ELSE [tracked |-> TRUE,
          drone_id |-> d,
          mission_id |-> m,
          current_waypoint_index |-> 0,
          target_waypoint_index |-> IF NumWaypoints > 1 THEN 1 ELSE 0,
          pos |-> IF drone[d].pos = NoPos \/ drone[d].pos = 0
                  THEN WaypointPos(0) ELSE drone[d].pos,
          battery |-> drone[d].battery,
          is_moving |-> TRUE,
          emergency_landing |-> FALSE]

\* simulation_loop, "Initialize new flights": the active missions in id
\* order, each one tracked under its drone id unless that id is tracked.
RECURSIVE InitializeNewFlights(_, _)
InitializeNewFlights(m, st) ==
    IF m > NumMissions THEN st
    ELSE LET d == mission[m].drone_id
             fs == initialize_flight_state(m)
         IN IF /\ m \in get_active_missions
               /\ ~st.flights[d].tracked
               /\ fs.tracked
            THEN InitializeNewFlights(m + 1,
                   [flights |-> [st.flights EXCEPT ![d] = fs],
                    keys |-> Append(st.keys, d)])
            ELSE InitializeNewFlights(m + 1, st)

\* simulation_loop, first half of an iteration.
BeginTick ==
    /\ sim_pc = "idle"
    /\ LET st == InitializeNewFlights(1, [flights |-> active_flights,
                                          keys |-> flight_keys])
       IN /\ active_flights' = st.flights
          /\ flight_keys' = st.keys
          /\ sim_todo' = st.keys
    /\ completed_flights' = {}
    /\ sim_pc' = "update"
    /\ UNCHANGED <<dbVars, sim_seen, emitted, cb, svcVars>>

SimDiscover == BeginTick /\ UNCHANGED aborted_at_tick

\* The same step, remembering which missions were stored as aborted when
\* the iteration began.
SimDiscoverAfterAbort ==
    /\ BeginTick
    /\ aborted_at_tick' = {m \in Missions : /\ mission[m].exists
                                            /\ mission[m].status = "aborted"}

\* update_flight_state, lines 275-279: load the mission, drone and waypoints.
SimLoad ==
    /\ sim_pc = "update"
    /\ sim_todo # <<>>
    /\ LET d == Head(sim_todo)
           m == active_flights[d].mission_id
       IN sim_seen' = [drone_id |-> d,
                       mission_exists |-> mission[m].exists,
                       drone_exists |-> drone[d].exists,
                       status |-> mission[m].status]
    /\ sim_pc' = "apply"
    /\ UNCHANGED <<dbVars, active_flights, flight_keys, sim_todo,
                   completed_flights, emitted, aborted_at_tick, cb, svcVars>>

\* End of one update_flight_state call: keep the flight (True) or queue it
\* for removal (False), and go on to the next flight.
SimReturn(d, fs, still_active) ==
    /\ active_flights' = [active_flights EXCEPT ![d] = fs]
    /\ completed_flights' = IF still_active THEN completed_flights
                            ELSE completed_flights \cup {d}
    /\ sim_todo' = Tail(sim_todo)
    /\ sim_seen' = NoSeen
    /\ sim_pc' = "update"
    /\ UNCHANGED <<flight_keys, aborted_at_tick, cb, svcVars>>

\* interpolate_position along the line: move towards the target, at most
\* up to it.
interpolate_position(pos, target, distance_to_move, total_distance) ==
    IF total_distance = 0 THEN pos
    ELSE IF target > pos THEN pos + Min(distance_to_move, total_distance)
    ELSE pos - Min(distance_to_move, total_distance)

\* The critical-battery branch without the abort of the mission.
EmergencyLanding_alert_only(d, fs, m) ==
    /\ emitted' = [emitted EXCEPT ![m] = @ + 1]
    /\ UNCHANGED <<mission, drone, waypoint, mission_log>>
    /\ SimReturn(d, [fs EXCEPT !.emergency_landing = TRUE,
                               !.is_moving = FALSE], FALSE)

\* update_flight_state, lines 290-308: the critical-battery abort.  The
\* alert is posted before the commit; the commit fails when the mission row
\* is gone.
EmergencyLanding(d, fs, m) ==
    LET fs1 == [fs EXCEPT !.emergency_landing = TRUE, !.is_moving = FALSE]
        db1 == Mission_abort_mission(Database, m,
                                     "Critical battery - emergency landing")
    IN
    /\ emitted' = [emitted EXCEPT ![m] = @ + 1]
    /\ IF mission[m].exists
       THEN /\ mission' = db1.mission
            /\ drone' = db1.drone
       ELSE UNCHANGED <<mission, drone>>
    /\ UNCHANGED <<waypoint, mission_log>>
    /\ SimReturn(d, fs1, FALSE)

\* update_flight_state, lines 325-338: the waypoint list is exhausted.
CompleteFlight(d, fs, m) ==
    /\ IF mission[m].exists
       THEN mission' = [mission EXCEPT ![m] = Mission_complete_mission(@)]
       ELSE UNCHANGED mission
    /\ UNCHANGED <<drone, waypoint, mission_log, emitted>>
    /\ SimReturn(d, fs, FALSE)

\* The arrival test passing only at the waypoint's exact position.
reached_waypoint_exactly(distance_to_target) == distance_to_target = 0

\* update_flight_state, line 349: "if distance_to_target <= 5.0".
reached_waypoint(distance_to_target) == distance_to_target <= ArrivalRadius

\* update_flight_state, lines 340-399: arrive at or move towards the target
\* waypoint, then store the drone's position and battery.  The commit fails
\* as a whole (rollback, False) when a row it updates is gone.
AdvanceFlight(d, fs, m, time_elapsed) ==
    LET target == fs.target_waypoint_index
        distance_to_target == Abs(fs.pos - WaypointPos(target))
        arrived == reached_waypoint(distance_to_target)
        act == WaypointAction(target)
        fsArrived ==
            [fs EXCEPT !.current_waypoint_index = target,
                       !.target_waypoint_index = target + 1,
                       !.battery = IF act \in {"takeoff", "land"}
                                   THEN @ - takeoff_landing_rate ELSE @,
                       !.is_moving = IF act = "land" THEN FALSE ELSE @]
        fsMoved ==
            IF fs.is_moving
            THEN [fs EXCEPT !.pos = interpolate_position(fs.pos,
                                WaypointPos(target),
                                flight_speed_mps * time_elapsed,
                                distance_to_target)]
            ELSE fs
        fs2 == IF arrived THEN fsArrived ELSE fsMoved
        progress == (fs2.current_waypoint_index * 100) \div NumWaypoints
        rowsThere == drone[d].exists /\ (arrived => mission[m].exists)
    IN
    /\ IF rowsThere
       THEN /\ drone' = [drone EXCEPT ![d].pos = fs2.pos,
                                      ![d].battery = fs2.battery]
            /\ IF arrived
               THEN /\ waypoint' = [waypoint EXCEPT ![m][target] = TRUE]
                    /\ mission' = [mission EXCEPT ![m] =
                          Mission_update_progress(@, progress,
                                                  fs2.current_waypoint_index)]
               ELSE UNCHANGED <<waypoint, mission>>
       ELSE UNCHANGED <<drone, waypoint, mission>>
    /\ UNCHANGED <<mission_log, emitted>>
    /\ SimReturn(d, fs2, rowsThere)

\* update_flight_state without the check that the mission is in progress.
SimApply_any_status(time_elapsed) ==
    /\ sim_pc = "apply"
    /\ LET d == sim_seen.drone_id
           fs == active_flights[d]
           m == fs.mission_id
           drain == IF fs.is_moving
                    THEN battery_consumption_rate * time_elapsed
                    ELSE hover_battery_rate * time_elapsed
           fs1 == [fs EXCEPT !.battery = Max(0, @ - drain)]
       IN IF \/ ~sim_seen.mission_exists
             \/ ~sim_seen.drone_exists
          THEN /\ UNCHANGED <<dbVars, emitted>>
               /\ SimReturn(d, fs, FALSE)
          ELSE IF fs.battery <= EmergencyBattery /\ ~fs.emergency_landing
          THEN EmergencyLanding(d, fs, m)
          ELSE IF fs1.target_waypoint_index >= NumWaypoints
          THEN CompleteFlight(d, fs1, m)
          ELSE AdvanceFlight(d, fs1, m, time_elapsed)

\* update_flight_state, from the checks on the loaded rows to the return.
SimApply(time_elapsed) ==
    /\ sim_pc = "apply"
    /\ LET d == sim_seen.drone_id
           fs == active_flights[d]
           m == fs.mission_id
           drain == IF fs.is_moving
                    THEN battery_consumption_rate * time_elapsed
                    ELSE hover_battery_rate * time_elapsed
           fs1 == [fs EXCEPT !.battery = Max(0, @ - drain)]
       IN IF \/ ~sim_seen.mission_exists
             \/ ~sim_seen.drone_exists
             \/ sim_seen.status # "in-progress"
          THEN /\ UNCHANGED <<dbVars, emitted>>
               /\ SimReturn(d, fs, FALSE)
          ELSE IF fs.battery <= EmergencyBattery /\ ~fs.emergency_landing
          THEN EmergencyLanding(d, fs, m)
          ELSE IF fs1.target_waypoint_index >= NumWaypoints
          THEN CompleteFlight(d, fs1, m)
          ELSE AdvanceFlight(d, fs1, m, time_elapsed)

\* The end of an iteration that deletes no flight from active_flights.
SimRemove_keeps_flights ==
    /\ sim_pc = "update"
    /\ sim_todo = <<>>
    /\ completed_flights' = {}
    /\ sim_pc' = "idle"
    /\ UNCHANGED <<dbVars, active_flights, flight_keys, sim_todo, sim_seen,
                   emitted, aborted_at_tick, cb, svcVars>>

\* simulation_loop, "Remove completed flights", then sleep until the next
\* iteration.
SimRemove ==
    /\ sim_pc = "update"
    /\ sim_todo = <<>>
    /\ active_flights' = [d \in Drones |->
                            IF d \in completed_flights THEN NoFlight
                            ELSE active_flights[d]]
    /\ flight_keys' = SelectSeq(flight_keys,
                                LAMBDA d : d \notin completed_flights)
    /\ completed_flights' = {}
    /\ sim_pc' = "idle"
    /\ UNCHANGED <<dbVars, sim_todo, sim_seen, emitted, aborted_at_tick, cb,
                   svcVars>>

\* ------------------------------------------------------ circuit breaker
failure_threshold == 5
recovery_timeout == 60
ExternalServiceRetryAfter == 300
ClockSteps == {30, 59}
Outcomes == {"return", "raise"}

NoCall == [kind |-> "none", pre_state |-> "CLOSED", at |-> -1, since |-> -1,
           ran_state |-> "none", invoked |-> FALSE, raised |-> "none",
           retry_after |-> -1]

\* CircuitBreaker.__init__ with its defaults, and a caller that has not
\* called yet.
CircuitBreakerInit ==
    [state |-> "CLOSED", failure_count |-> 0, last_failure_time |-> -1,
     now |-> 0, streak |-> 0, last |-> NoCall]

\* ExternalServiceError.__init__(message, service_name, **kwargs): it passes
\* retry_after=300 and **kwargs on to BaseApplicationError.__init__, which
\* is a TypeError when kwargs holds retry_after as well.
ExternalServiceError(kwargs) ==
    IF "retry_after" \in DOMAIN kwargs
    THEN [type |-> "TypeError", retry_after |-> -1]
    ELSE [type |-> "ExternalServiceError",
          retry_after |-> ExternalServiceRetryAfter]

\* CircuitBreaker._should_attempt_reset()
should_attempt_reset(b) ==
    /\ b.last_failure_time # -1
    /\ b.now - b.last_failure_time >= recovery_timeout

\* _on_success that closes the circuit but keeps the failure count.
on_success_keeps_count(b) == [b EXCEPT !.state = "CLOSED"]

\* CircuitBreaker._on_success()
on_success(b) == [b EXCEPT !.failure_count = 0, !.state = "CLOSED"]

\* _on_failure that opens only above the threshold.
on_failure_above_threshold(b) ==
    LET b1 == [b EXCEPT !.failure_count = @ + 1, !.last_failure_time = b.now]
    IN IF b1.failure_count > failure_threshold
       THEN [b1 EXCEPT !.state = "OPEN"] ELSE b1

\* CircuitBreaker._on_failure()
on_failure(b) ==
    LET b1 == [b EXCEPT !.failure_count = @ + 1, !.last_failure_time = b.now]
    IN IF b1.failure_count >= failure_threshold
       THEN [b1 EXCEPT !.state = "OPEN"] ELSE b1

\* One call of the wrapper returned by CircuitBreaker.__call__; outcome is
\* what the wrapped function does if it is invoked.
wrapper(b, outcome) ==
    LET since == IF b.last_failure_time = -1 THEN -1
                 ELSE b.now - b.last_failure_time
        call == [kind |-> "call", pre_state |-> b.state, at |-> b.now,
                 since |-> since,
                 ran_state |-> "none", invoked |-> FALSE, raised |-> "none",
                 retry_after |-> -1]
        err == ExternalServiceError([retry_after |-> recovery_timeout])
        b1 == IF b.state = "OPEN" /\ should_attempt_reset(b)
              THEN [b EXCEPT !.state = "HALF_OPEN"] ELSE b
        ran == [call EXCEPT !.invoked = TRUE, !.ran_state = b1.state]
    IN IF b.state = "OPEN" /\ ~should_attempt_reset(b)
       THEN [b EXCEPT !.last = [call EXCEPT !.kind = "rejected",
                                            !.raised = err.type,
                                            !.retry_after = err.retry_after]]
       ELSE IF outcome = "return"
       THEN [on_success(b1) EXCEPT !.streak = 0, !.last = ran]
       ELSE [on_failure(b1) EXCEPT !.streak = @ + 1,
                                   !.last = [ran EXCEPT !.raised = "wrapped"]]

CBCall(outcome) ==
    /\ cb' = wrapper(cb, outcome)
    /\ UNCHANGED <<dbVars, simVars, svcVars>>

\* Time passes between calls.
CBAdvanceClock(dt) ==
    /\ cb.now + dt <= MaxNow
    /\ cb' = [cb EXCEPT !.now = @ + dt]
    /\ UNCHANGED <<dbVars, simVars, svcVars>>

\* --------------------------------------------------- waypoint generator
MaxSurveyPoints == 3
SurveyLeg == 30
default_speed_mps == 15
MinAltitude == 10
MaxAltitude == 400
MinOverlap == 30
MaxOverlap == 90

\* What a caller may pass: the polygon text (absent, not a valid polygon, or
\* a polygon), the number of its vertices, the number of pattern points that
\* fall inside it, and the flight parameters.
GeneratorInputs ==
    [geojson : {"", "invalid", "polygon"},
     vertices : {3, 4},
     hits : 0..MaxSurveyPoints,
     altitude_m : {MinAltitude - 1, MinAltitude, MaxAltitude, MaxAltitude + 1},
     overlap_percentage : {MinOverlap - 1, MinOverlap, MaxOverlap,
                           MaxOverlap + 1},
     pattern_type : {"crosshatch", "grid", "perimeter", "spiral"}]

NoInput == [geojson |-> "", vertices |-> 3, hits |-> 0,
            altitude_m |-> MinAltitude, overlap_percentage |-> MinOverlap,
            pattern_type |-> "crosshatch"]
GenIdle == [pc |-> "none", input |-> NoInput, raised |-> "none",
            waypoints |-> <<>>]

WaypointData(location, altitude, order, action) ==
    [location |-> location, altitude |-> altitude, order |-> order,
     action |-> action, estimated_time_seconds |-> -1]

\* _validate_inputs: TRUE when it raises ValueError.
validate_inputs_raises(in) ==
    \/ in.geojson = ""
    \/ in.altitude_m < MinAltitude \/ in.altitude_m > MaxAltitude
    \/ in.overlap_percentage < MinOverlap
    \/ in.overlap_percentage > MaxOverlap
    \/ in.pattern_type \notin {"crosshatch", "grid", "perimeter"}

\* _generate_crosshatch_pattern, _generate_grid_pattern and
\* _generate_perimeter_pattern: capture waypoints at the flight altitude,
\* numbered from 1 as they are appended.  The crosshatch and grid patterns
\* yield the points that fall inside the polygon, possibly none; the
\* perimeter pattern yields one point per vertex.
generate_pattern(in) ==
    LET count == IF in.pattern_type = "perimeter"
                 THEN in.vertices ELSE in.hits
    IN [i \in 1..count |->
          WaypointData(i * SurveyLeg, in.altitude_m, i, "capture")]

\* _add_takeoff_landing that lands at the flight altitude.
add_takeoff_landing_aloft(waypoints) ==
    IF waypoints = <<>> THEN waypoints
    ELSE LET first_waypoint == waypoints[1]
             takeoff == WaypointData(first_waypoint.location,
                                     first_waypoint.altitude, 0, "takeoff")
             landing == WaypointData(first_waypoint.location,
                                     first_waypoint.altitude,
                                     Len(waypoints) + 1, "land")
             renumbered == [i \in 1..Len(waypoints) |->
                              [waypoints[i] EXCEPT !.order = i]]
         IN <<takeoff>> \o renumbered \o <<landing>>

\* _add_takeoff_landing
add_takeoff_landing(waypoints) ==
    IF waypoints = <<>> THEN waypoints
    ELSE LET first_waypoint == waypoints[1]
             takeoff == WaypointData(first_waypoint.location,
                                     first_waypoint.altitude, 0, "takeoff")
             landing == WaypointData(first_waypoint.location, 0,
                                     Len(waypoints) + 1, "land")
             renumbered == [i \in 1..Len(waypoints) |->
                              [waypoints[i] EXCEPT !.order = i]]
         IN <<takeoff>> \o renumbered \o <<landing>>

\* _calculate_timing: cumulative whole seconds, travel at the default speed
\* plus the dwell time of each action.
RECURSIVE TotalTime(_, _)
TotalTime(waypoints, i) ==
    IF i = 1
    THEN IF waypoints[1].action = "takeoff" THEN 10 ELSE 0
    ELSE LET travel == Abs(waypoints[i].location - waypoints[i - 1].location)
                          \div default_speed_mps
             dwell == CASE waypoints[i].action = "capture" -> 2
                        [] waypoints[i].action = "hover" -> 5
                        [] waypoints[i].action = "land" -> 15
                        [] OTHER -> 0
         IN TotalTime(waypoints, i - 1) + travel + dwell

calculate_timing(waypoints) ==
    [i \in 1..Len(waypoints) |->
       [waypoints[i] EXCEPT !.estimated_time_seconds =
          IF i = 1 THEN 0 ELSE TotalTime(waypoints, i)]]

\* WaypointGenerator.generate_waypoints
generate_waypoints(in) ==
    IF validate_inputs_raises(in) \/ in.geojson = "invalid"
    THEN [raised |-> "ValueError", waypoints |-> <<>>]
    ELSE [raised |-> "none",
          waypoints |-> calculate_timing(
                            add_takeoff_landing(generate_pattern(in)))]

GenerateWaypoints ==
    /\ gen.pc = "called"
    /\ gen' = [pc |-> "returned", input |-> gen.input,
               raised |-> generate_waypoints(gen.input).raised,
               waypoints |-> generate_waypoints(gen.input).waypoints]
    /\ UNCHANGED <<dbVars, simVars, cb, ws, am, hc, seed, fleet, cfg, crt, mon, operator>>

\* ------------------------------------------------------------ websockets
NumClients == 1
MaxSubscriptions == 3
Clients == 1..NumClients
NoClient == 0
NoId == 0

MissionRoom(mission_id) == [kind |-> "mission", id |-> mission_id]
DroneRoom(drone_id) == [kind |-> "drone", id |-> drone_id]
Rooms == {MissionRoom(m) : m \in Missions} \cup {DroneRoom(d) : d \in Drones}

DedicatedEvents == {"drone_status_update", "mission_progress_update",
                    "emergency_alert", "mission_completed",
                    "battery_warning"}
EmitEvents == DedicatedEvents \cup {"simulation_tick"}

\* What the last event did: the clients a room-scoped emit went to, whether
\* something was emitted to every client, the HTTP code of a POST /emit and
\* whether it logged the warning.
Event(name, client, id) ==
    [name |-> name, client |-> client, id |-> id, recipients |-> {},
     broadcast |-> FALSE, code |-> 0, warning |-> FALSE]

\* The module's global websocket_manager is None until init_websockets.
WSInit ==
    [initialized |-> FALSE,
     connected |-> [c \in Clients |-> FALSE],
     subscriptions |-> [c \in Clients |-> <<>>],
     rooms |-> [c \in Clients |-> {}],
     last |-> Event("none", NoClient, NoId)]

\* list.remove(x): the first occurrence only.
RECURSIVE RemoveFirst(_, _)
RemoveFirst(seq, x) ==
    IF seq = <<>> THEN seq
    ELSE IF Head(seq) = x THEN Tail(seq)
    ELSE <<Head(seq)>> \o RemoveFirst(Tail(seq), x)

InList(seq, x) == \E i \in 1..Len(seq) : seq[i] = x

\* The clients that socketio.emit(..., room=room) reaches.
RoomMembers(w, room) == {c \in Clients : w.connected[c] /\ room \in w.rooms[c]}

\* init_websockets: the manager is built and registers its handlers.
init_websockets(w) ==
    [w EXCEPT !.initialized = TRUE, !.last = Event("init", NoClient, NoId)]

\* handle_connect
handle_connect(w, c) ==
    [w EXCEPT !.connected[c] = TRUE,
              !.subscriptions[c] = <<>>,
              !.last = [Event("connect", c, NoId) EXCEPT !.recipients = {c}]]

\* handle_disconnect; the socket server takes the client out of its rooms.
handle_disconnect(w, c) ==
    [w EXCEPT !.connected[c] = FALSE,
              !.subscriptions[c] = <<>>,
              !.rooms[c] = {},
              !.last = Event("disconnect", c, NoId)]

\* handle_mission_subscription
handle_mission_subscription(w, c, mission_id) ==
    IF mission_id = NoId
    THEN [w EXCEPT !.last = Event("subscribe_to_mission", c, NoId)]
    ELSE [w EXCEPT !.rooms[c] = @ \cup {MissionRoom(mission_id)},
                   !.subscriptions[c] = Append(@, MissionRoom(mission_id)),
                   !.last = Event("subscribe_to_mission", c, mission_id)]

\* handle_mission_unsubscription
handle_mission_unsubscription(w, c, mission_id) ==
    IF mission_id = NoId
    THEN [w EXCEPT !.last = Event("unsubscribe_from_mission", c, NoId)]
    ELSE [w EXCEPT !.rooms[c] = @ \ {MissionRoom(mission_id)},
                   !.subscriptions[c] = RemoveFirst(@, MissionRoom(mission_id)),
                   !.last = Event("unsubscribe_from_mission", c, mission_id)]

\* handle_drone_subscription
handle_drone_subscription(w, c, drone_id) ==
    IF drone_id = NoId
    THEN [w EXCEPT !.last = Event("subscribe_to_drone", c, NoId)]
    ELSE [w EXCEPT !.rooms[c] = @ \cup {DroneRoom(drone_id)},
                   !.subscriptions[c] = Append(@, DroneRoom(drone_id)),
                   !.last = Event("subscribe_to_drone", c, drone_id)]

\* register_handlers registers no handler for unsubscribe_from_drone: the
\* socket server receives the event and drops it.
unhandled_event(w, name, c, id) == [w EXCEPT !.last = Event(name, c, id)]

\* broadcast_drone_update
broadcast_drone_update(w, drone_id) ==
    IF drone_id = NoId
    THEN [w EXCEPT !.last = Event("drone_status_update", NoClient, NoId)]
    ELSE [w EXCEPT !.last =
            [Event("drone_status_update", NoClient, drone_id) EXCEPT
               !.recipients = RoomMembers(w, DroneRoom(drone_id)),
               !.broadcast = TRUE]]

\* broadcast_mission_update
broadcast_mission_update(w, mission_id) ==
    IF mission_id = NoId
    THEN [w EXCEPT !.last = Event("mission_progress_update", NoClient, NoId)]
    ELSE [w EXCEPT !.last =
            [Event("mission_progress_update", NoClient, mission_id) EXCEPT
               !.recipients = RoomMembers(w, MissionRoom(mission_id)),
               !.broadcast = TRUE]]

\* broadcast_emergency_alert
broadcast_emergency_alert(w, id) ==
    [w EXCEPT !.last = [Event("emergency_alert", NoClient, id) EXCEPT
                          !.broadcast = TRUE]]

\* broadcast_mission_completed
broadcast_mission_completed(w, mission_id) ==
    [w EXCEPT !.last =
       [Event("mission_completed", NoClient, mission_id) EXCEPT
          !.recipients = IF mission_id = NoId THEN {}
                         ELSE RoomMembers(w, MissionRoom(mission_id)),
          !.broadcast = TRUE]]

\* broadcast_battery_warning
broadcast_battery_warning(w, drone_id) ==
    [w EXCEPT !.last =
       [Event("battery_warning", NoClient, drone_id) EXCEPT
          !.recipients = IF drone_id = NoId THEN {}
                         ELSE RoomMembers(w, DroneRoom(drone_id)),
          !.broadcast = TRUE]]

\* The generic branch of POST /emit without the catch of RuntimeError.
emit_websocket_event_uncaught(w, event_name, id) ==
    IF event_name = ""
    THEN [w EXCEPT !.last = [Event("emit", NoClient, id) EXCEPT !.code = 400]]
    ELSE IF ~w.initialized
    THEN [w EXCEPT !.last = [Event(event_name, NoClient, id) EXCEPT
                               !.code = 500]]
    ELSE LET sent ==
               CASE event_name = "drone_status_update" ->
                        broadcast_drone_update(w, id)
                 [] event_name = "mission_progress_update" ->
                        broadcast_mission_update(w, id)
                 [] event_name = "emergency_alert" ->
                        broadcast_emergency_alert(w, id)
                 [] event_name = "mission_completed" ->
                        broadcast_mission_completed(w, id)
                 [] event_name = "battery_warning" ->
                        broadcast_battery_warning(w, id)
                 [] OTHER ->
                        [w EXCEPT !.last = [Event(event_name, NoClient, id)
                                              EXCEPT !.broadcast = TRUE]]
         IN [sent EXCEPT !.last.code = 200]

\* POST /api/v1/simulator/emit.  The five dedicated events go through
\* get_websocket_manager() unguarded, so its RuntimeError reaches the outer
\* handler (500); the generic branch catches it, logs a warning and answers
\* 200.
emit_websocket_event(w, event_name, id) ==
    IF event_name = ""
    THEN [w EXCEPT !.last = [Event("emit", NoClient, id) EXCEPT !.code = 400]]
    ELSE IF event_name \in DedicatedEvents /\ ~w.initialized
    THEN [w EXCEPT !.last = [Event(event_name, NoClient, id) EXCEPT
                               !.code = 500]]
    ELSE IF ~w.initialized
    THEN [w EXCEPT !.last = [Event(event_name, NoClient, id) EXCEPT
                               !.code = 200, !.warning = TRUE]]
    ELSE LET sent ==
               CASE event_name = "drone_status_update" ->
                        broadcast_drone_update(w, id)
                 [] event_name = "mission_progress_update" ->
                        broadcast_mission_update(w, id)
                 [] event_name = "emergency_alert" ->
                        broadcast_emergency_alert(w, id)
                 [] event_name = "mission_completed" ->
                        broadcast_mission_completed(w, id)
                 [] event_name = "battery_warning" ->
                        broadcast_battery_warning(w, id)
                 [] OTHER ->
                        [w EXCEPT !.last = [Event(event_name, NoClient, id)
                                              EXCEPT !.broadcast = TRUE]]
         IN [sent EXCEPT !.last.code = 200]

WSStep(w) ==
    /\ ws' = w
    /\ UNCHANGED <<dbVars, simVars, cb, gen, am, hc, seed, fleet, cfg, crt, mon, operator>>

InitWebsockets == ~ws.initialized /\ WSStep(init_websockets(ws))

Connect(c) ==
    /\ ws.initialized
    /\ ~ws.connected[c]
    /\ WSStep(handle_connect(ws, c))

Disconnect(c) == ws.connected[c] /\ WSStep(handle_disconnect(ws, c))

SubscribeToMission(c, mission_id) ==
    /\ ws.connected[c]
    /\ Len(ws.subscriptions[c]) < MaxSubscriptions
    /\ WSStep(handle_mission_subscription(ws, c, mission_id))

UnsubscribeFromMission(c, mission_id) ==
    /\ ws.connected[c]
    /\ WSStep(handle_mission_unsubscription(ws, c, mission_id))

SubscribeToDrone(c, drone_id) ==
    /\ ws.connected[c]
    /\ Len(ws.subscriptions[c]) < MaxSubscriptions
    /\ WSStep(handle_drone_subscription(ws, c, drone_id))

UnsubscribeFromDrone(c, drone_id) ==
    /\ ws.connected[c]
    /\ WSStep(unhandled_event(ws, "unsubscribe_from_drone", c, drone_id))

PostEmit(event_name, id) == WSStep(emit_websocket_event(ws, event_name, id))

\* ------------------------------------------------------------ monitoring
NumRules == 2
MaxPasses == 12
Rules == 1..NumRules
default_cooldown == 300
SecondsPerDay == 86400
NeverTriggered == -1

monitoring_interval == 30
ConditionOutcomes == {"true", "false", "raise"}

\* AlertManager.__init__ followed by add_alert_rule for each rule, with the
\* default cooldown and distinct names; the monitoring loop is about to
\* make its first pass.
AMInit ==
    [now |-> 0, pc |-> "check", passes |-> 0,
     condition |-> [r \in Rules |-> "false"],
     last_triggered |-> [r \in Rules |-> NeverTriggered],
     active_alerts |-> {},
     alert_history |-> <<>>]

\* timedelta.seconds: the seconds field of the difference, without its
\* days.
timedelta_seconds(later, earlier) == (later - earlier) % SecondsPerDay

\* The body of check_alerts' loop for one rule.
check_rule(a, r) ==
    IF a.condition[r] = "raise" THEN a
    ELSE IF a.condition[r] = "true"
    THEN IF /\ a.last_triggered[r] # NeverTriggered
            /\ timedelta_seconds(a.now, a.last_triggered[r]) < default_cooldown
         THEN a
         ELSE [a EXCEPT !.active_alerts = @ \cup {r},
                        !.alert_history =
                            Append(@, [name |-> r, timestamp |-> a.now]),
                        !.last_triggered[r] = a.now]
    ELSE [a EXCEPT !.active_alerts = @ \ {r}]

\* AlertManager.check_alerts: the rules in the order they were added.
RECURSIVE check_alerts_from(_, _)
check_alerts_from(a, r) ==
    IF r > NumRules THEN a ELSE check_alerts_from(check_rule(a, r), r + 1)

check_alerts(a) == check_alerts_from(a, 1)

AMStep(a) ==
    /\ am' = a
    /\ UNCHANGED <<dbVars, simVars, cb, gen, ws, hc, seed, fleet, cfg, crt, mon, operator>>

\* _monitoring_loop: one evaluation pass.
AlertPass ==
    /\ am.pc = "check"
    /\ am.passes < MaxPasses
    /\ AMStep([check_alerts(am) EXCEPT !.pc = "sleep", !.passes = @ + 1])

\* _monitoring_loop: the sleep between two passes.
AlertSleep ==
    /\ am.pc = "sleep"
    /\ AMStep([am EXCEPT !.now = @ + monitoring_interval, !.pc = "check"])

\* _monitoring_loop: a day of passes that find nothing to do, no condition
\* being true and no alert active.
AlertQuietDay ==
    /\ am.pc = "sleep"
    /\ am.active_alerts = {}
    /\ \A r \in Rules : am.condition[r] # "true"
    /\ am.now < SecondsPerDay          \* one such day in a run
    /\ AMStep([am EXCEPT !.now = @ + SecondsPerDay])

\* What a rule's condition callable returns changes with the system.
ConditionChanges(r, outcome) ==
    /\ am.condition[r] # outcome
    /\ AMStep([am EXCEPT !.condition[r] = outcome])

\* Health checks.
NumChecks == 2
CheckNames == 1..NumChecks
CheckBehaviours == {"healthy", "degraded", "unhealthy", "raise"}

\* HealthChecker.__init__: no check registered, no result.
HCInit ==
    [checks |-> [n \in CheckNames |-> "unregistered"],
     results |-> [n \in CheckNames |-> "none"],
     last |-> "init"]

\* register_check(name, check_func): check_func is known by what it does.
register_check(h, name, behaviour) ==
    [h EXCEPT !.checks[name] = behaviour, !.last = "register"]

\* run_all_checks: a check that raises is recorded as unhealthy, and the
\* results of the previous run are replaced.
run_all_checks(h) ==
    [h EXCEPT !.results =
                 [n \in CheckNames |->
                    CASE h.checks[n] = "unregistered" -> "none"
                      [] h.checks[n] = "raise" -> "unhealthy"
                      [] OTHER -> h.checks[n]],
              !.last = "run"]

\* The statuses of the stored results.
ResultStatuses(h) == {h.results[n] : n \in CheckNames} \ {"none"}

\* get_overall_status that calls any healthy check enough.
get_overall_status_any_healthy(h) ==
    IF ResultStatuses(h) = {} THEN "unknown"
    ELSE IF \E n \in CheckNames : h.results[n] = "healthy" THEN "healthy"
    ELSE IF "unhealthy" \in ResultStatuses(h) THEN "unhealthy"
    ELSE "degraded"

\* HealthChecker.get_overall_status
get_overall_status(h) ==
    IF ResultStatuses(h) = {} THEN "unknown"
    ELSE IF \A n \in CheckNames :
              h.results[n] # "none" => h.results[n] = "healthy"
    THEN "healthy"
    ELSE IF "unhealthy" \in ResultStatuses(h) THEN "unhealthy"
    ELSE "degraded"

HCStep(h) ==
    /\ hc' = h
    /\ UNCHANGED <<dbVars, simVars, cb, gen, ws, am, seed, fleet, cfg, crt, mon, operator>>

RegisterCheck(name, behaviour) ==
    /\ hc.checks[name] # behaviour
    /\ HCStep(register_check(hc, name, behaviour))

\* MonitoringSystem.health_endpoint: run_all_checks, then the summary.
RunAllChecks == hc.last # "run" /\ HCStep(run_all_checks(hc))

\* ------------------------------------------------------------ demo seeding
\* The drones of the development database, in the order of their ids: one
\* that the fleet API stored, and the two that the script creates by name.
DemoDroneNames == <<"DemoFlyer-001", "DemoFlyer-002">>
SeedDroneOrder == <<"Surveyor">> \o DemoDroneNames
SeedDrones == {SeedDroneOrder[i] : i \in DOMAIN SeedDroneOrder}
SeedDroneStates == {"absent", "available", "maintenance"}
DemoMissions == 1..2

NoDemoMission ==
    [exists |-> FALSE, drone |-> "none", status |-> "planned",
     waypoints |-> FALSE]

\* A development database the script can find, without demo missions.
SeedDatabases ==
    [drones : [SeedDrones -> SeedDroneStates],
     missions : {[m \in DemoMissions |-> NoDemoMission]}]

SeedIdle ==
    [pc |-> "idle", result |-> "none", available |-> <<>>,
     db |-> [drones |-> [n \in SeedDrones |-> "absent"],
             missions |-> [m \in DemoMissions |-> NoDemoMission]],
     session |-> [drones |-> [n \in SeedDrones |-> "absent"],
                  missions |-> [m \in DemoMissions |-> NoDemoMission]],
     before |-> [drones |-> [n \in SeedDrones |-> "absent"],
                 missions |-> [m \in DemoMissions |-> NoDemoMission]]]

\* setup_demo_data entered with database d: a fresh session on it.
SeedStarted(d) ==
    [pc |-> "drones", result |-> "none", available |-> <<>>,
     db |-> d, session |-> d, before |-> d]

\* session.query(Drone).filter_by(status=AVAILABLE).all()
RECURSIVE AvailableFrom(_, _)
AvailableFrom(drones, i) ==
    IF i > Len(SeedDroneOrder) THEN <<>>
    ELSE (IF drones[SeedDroneOrder[i]] = "available"
          THEN <<SeedDroneOrder[i]>> ELSE <<>>)
         \o AvailableFrom(drones, i + 1)

available_drones(view) == AvailableFrom(view.drones, 1)

\* The loop over demo_drones: a placeholder is added unless a drone of its
\* name exists; a new drone is available.
add_demo_drones(view) ==
    [view EXCEPT !.drones =
        [n \in SeedDrones |->
            IF /\ \E i \in DOMAIN DemoDroneNames : DemoDroneNames[i] = n
               /\ view.drones[n] = "absent"
            THEN "available" ELSE view.drones[n]]]

\* create_demo_mission: the mission row and its waypoints, generated or
\* hard-coded, are added to the session.
create_demo_mission(view, m, drone_name) ==
    [view EXCEPT !.missions[m] =
        [exists |-> TRUE, drone |-> drone_name, status |-> "planned",
         waypoints |-> TRUE]]

SeedStep(s) ==
    /\ seed' = s
    /\ UNCHANGED <<dbVars, simVars, cb, gen, ws, am, hc, fleet, cfg, crt, mon, operator>>

\* except Exception: session.rollback(), return False.
seed_failed(s) ==
    [s EXCEPT !.session = s.db, !.result = "error", !.pc = "failed"]

\* Lines 124-154: with fewer than two available drones the placeholders
\* are added and committed.
SeedEnsureDrones ==
    /\ seed.pc = "drones"
    /\ IF Len(available_drones(seed.session)) < 2
       THEN LET view == add_demo_drones(seed.session) IN
            SeedStep([seed EXCEPT !.session = view, !.db = view,
                                  !.available = available_drones(view),
                                  !.pc = "mission1"])
       ELSE SeedStep([seed EXCEPT
                         !.available = available_drones(seed.session),
                         !.pc = "mission1"])

\* Lines 168-173: available_drones[0] raises IndexError on an empty list.
SeedCreateMission1 ==
    /\ seed.pc = "mission1"
    /\ IF seed.available = <<>>
       THEN SeedStep(seed_failed(seed))
       ELSE SeedStep([seed EXCEPT
              !.session = create_demo_mission(@, 1, seed.available[1]),
              !.pc = "mission2"])

\* Lines 184-191: the second mission, on the second available drone when
\* there is one, and the commit of both missions.
SeedCreateMission2 ==
    /\ seed.pc = "mission2"
    /\ LET d == IF Len(seed.available) > 1
                THEN seed.available[2] ELSE seed.available[1]
           view == create_demo_mission(seed.session, 2, d) IN
       SeedStep([seed EXCEPT !.session = view, !.db = view,
                             !.pc = "start1"])

\* Line 200: mission1.start_mission()
SeedStartMission1 ==
    /\ seed.pc = "start1"
    /\ SeedStep([seed EXCEPT
          !.session.missions[1] = Mission_start_mission(@),
          !.pc = "start2"])

\* Lines 202-204: mission2.start_mission() and the commit of both starts.
SeedStartMission2 ==
    /\ seed.pc = "start2"
    /\ LET view == [seed.session EXCEPT
                       !.missions[2] = Mission_start_mission(@)] IN
       SeedStep([seed EXCEPT !.session = view, !.db = view,
                             !.result = "ok", !.pc = "done"])

\* Any statement of the try block raises: the database refuses a query, a
\* flush or a commit.
SeedRaise ==
    /\ seed.pc \in {"drones", "mission1", "mission2", "start1", "start2"}
    /\ SeedStep(seed_failed(seed))


\* ------------------------------------------------------ fleet optimization
MaxBatch == 3
NumFleetDrones == 3
BatchMissions == 1..MaxBatch
FleetDrones == 1..NumFleetDrones

\* The rows a query returns, in the order of their ids.
RECURSIVE RowsOf(_, _)
RowsOf(ids, i) ==
    IF i > Max(MaxBatch, NumFleetDrones) THEN <<>>
    ELSE (IF i \in ids THEN <<i>> ELSE <<>>) \o RowsOf(ids, i + 1)

\* One request: the missions the query found, in the order it returned
\* them, and the available drones.
FleetRequests ==
    {[missions |-> ms, pool |-> RowsOf(ds, 1)] :
        ms \in {s \in UNION {[1..n -> BatchMissions] : n \in 0..MaxBatch} :
                   \A i, j \in DOMAIN s : i # j => s[i] # s[j]},
        ds \in SUBSET FleetDrones}

FleetIdle ==
    [pc |-> "idle", missions |-> <<>>, next |-> 1, available_drones |-> <<>>,
     optimized_assignments |-> <<>>, code |-> 0]

\* The handler up to its loop: 400 without missions or without drones.
FleetCalled(req) ==
    IF req.missions = <<>> \/ req.pool = <<>>
    THEN [FleetIdle EXCEPT !.pc = "done", !.missions = req.missions,
                           !.available_drones = req.pool, !.code = 400]
    ELSE [FleetIdle EXCEPT !.pc = "loop", !.missions = req.missions,
                           !.available_drones = req.pool]

\* DroneScore.drone_id = str(drone.id)
drone_id_str(d) == ToString(d)

\* DroneSelectionAI.select_optimal_drone: the drones it may return.  The
\* random factors decide between the drones of the list; an available drone
\* always scores above 50 (30 for availability and at least 29.75 for the
\* simulated factors), so the answer is None only for an empty list.
select_optimal_drone(drones) ==
    {drone_id_str(drones[i]) : i \in DOMAIN drones}

\* The list comprehension that keeps every drone of the list.
remove_assigned_none(drones, selected_drone_id) == drones

\* available_drones = [d for d in available_drones
\*                     if str(d.id) != selected_drone_id]
remove_assigned(drones, selected_drone_id) ==
    SelectSeq(drones, LAMBDA d : drone_id_str(d) # selected_drone_id)

FleetStep(f) ==
    /\ fleet' = f
    /\ UNCHANGED <<dbVars, simVars, cb, gen, ws, am, hc, seed, cfg, crt, mon, operator>>

\* One iteration of the loop over missions, optimize_mission succeeding
\* with one of the drones it may select.
FleetAssign ==
    /\ fleet.pc = "loop"
    /\ fleet.next <= Len(fleet.missions)
    /\ \E selected_drone_id \in select_optimal_drone(fleet.available_drones) :
          FleetStep([fleet EXCEPT
             !.optimized_assignments =
                 Append(@, [mission_id |-> fleet.missions[fleet.next],
                            recommended_drone_id |-> selected_drone_id]),
             !.available_drones = remove_assigned(@, selected_drone_id),
             !.next = @ + 1])

\* One iteration in which optimize_mission finds no drone: success is
\* false and the mission gets no assignment.
FleetSkip ==
    /\ fleet.pc = "loop"
    /\ fleet.next <= Len(fleet.missions)
    /\ select_optimal_drone(fleet.available_drones) = {}
    /\ FleetStep([fleet EXCEPT !.next = @ + 1])

\* The loop is over: the 200 response with the assignments.
FleetRespond ==
    /\ fleet.pc = "loop"
    /\ fleet.next > Len(fleet.missions)
    /\ FleetStep([fleet EXCEPT !.pc = "done", !.code = 200])

\* except Exception: a 500 without assignments.
FleetRaise ==
    /\ fleet.pc = "loop"
    /\ FleetStep([fleet EXCEPT !.pc = "done", !.code = 500,
                               !.optimized_assignments = <<>>])


\* ------------------------------------------------------------ configuration
default_min_altitude_m == 30
default_max_altitude_m == 400
default_battery_low_threshold == 20
default_battery_critical_threshold == 10

\* A field the caller and the environment leave to its default: a number,
\* and a word or a boolean.
UnsetNumber == -1
Unset == "unset"

\* The keyword arguments and environment variables of one construction of
\* DroneSurveyConfig with its mission section, every value inside the range
\* its Field declares.
ConfigInputs ==
    [min_altitude_m : {UnsetNumber, 30, 400, 500},
     max_altitude_m : {UnsetNumber, 20, 400, 500},
     battery_low_threshold : {UnsetNumber, 5, 10, 20},
     battery_critical_threshold : {UnsetNumber, 5, 10, 20},
     environment : {Unset, "development", "production"},
     debug : {Unset, "True", "False"}]

NoConfigInput ==
    [min_altitude_m |-> UnsetNumber, max_altitude_m |-> UnsetNumber,
     battery_low_threshold |-> UnsetNumber,
     battery_critical_threshold |-> UnsetNumber,
     environment |-> Unset, debug |-> Unset]

ConfigIdle == [pc |-> "idle", input |-> NoConfigInput, result |-> "none"]

\* The value a field of the constructed configuration has.
NumberValue(given, default) ==
    IF given = UnsetNumber THEN default ELSE given

WordValue(given, default) == IF given = Unset THEN default ELSE given

\* validate_altitude_range.  A validator without always=True runs only for
\* a value that was given; values holds the fields validated before it.
validate_altitude_range_raises(in) ==
    /\ in.max_altitude_m # UnsetNumber
    /\ in.max_altitude_m
          <= NumberValue(in.min_altitude_m, default_min_altitude_m)

\* validate_battery_thresholds, likewise.
validate_battery_thresholds_raises(in) ==
    /\ in.battery_critical_threshold # UnsetNumber
    /\ in.battery_critical_threshold
          >= NumberValue(in.battery_low_threshold,
                         default_battery_low_threshold)

\* validate_debug_mode, likewise; the default of debug is False.
validate_debug_mode_raises(in) ==
    /\ in.debug # Unset
    /\ in.debug = "True"
    /\ WordValue(in.environment, "development") = "production"

\* DroneSurveyConfig(**kwargs): a ValidationError when a validator raises.
construct_config(in) ==
    IF \/ validate_altitude_range_raises(in)
       \/ validate_battery_thresholds_raises(in)
       \/ validate_debug_mode_raises(in)
    THEN "error" ELSE "ok"

ConstructConfig ==
    /\ cfg.pc = "called"
    /\ cfg' = [cfg EXCEPT !.pc = "done",
                          !.result = construct_config(cfg.input)]
    /\ UNCHANGED <<dbVars, simVars, cb, gen, ws, am, hc, seed, fleet, crt, mon, operator>>


\* ----------------------------------------------------------- create mission
MaxPlannedAltitude == 120
MinPlannedOverlap == 10

\* The bodies of POST /missions, and where the database fails, if it does.
CreateInputs ==
    [body : BOOLEAN,
     missing_field : BOOLEAN,
     altitude_m : {0, 5, 100, 150},
     overlap_percentage : {5, 70, 95},
     polygon : {"valid", "invalid"},
     survey_pattern : {"crosshatch", "grid", "perimeter", "spiral"},
     db_failure : {"none", "flush", "commit"}]

NoCreateInput ==
    [body |-> FALSE, missing_field |-> FALSE, altitude_m |-> 0,
     overlap_percentage |-> 5, polygon |-> "invalid",
     survey_pattern |-> "spiral", db_failure |-> "none"]

\* What the request left in the database.
NothingStored == [mission |-> FALSE, waypoints |-> FALSE, log |-> FALSE]
AllStored == [mission |-> TRUE, waypoints |-> TRUE, log |-> TRUE]

CreateIdle ==
    [pc |-> "idle", input |-> NoCreateInput, code |-> 0,
     stored |-> NothingStored]

\* MissionPlanner.validate_mission_parameters: the request is valid.
validate_mission_parameters(in) ==
    /\ ~in.missing_field
    /\ in.altitude_m > 0
    /\ in.altitude_m <= MaxPlannedAltitude
    /\ in.altitude_m >= MinAltitude
    /\ in.overlap_percentage >= MinPlannedOverlap
    /\ in.overlap_percentage <= MaxOverlap
    /\ in.polygon = "valid"

\* The parameters generate_waypoints requires, and the keywords plan_mission
\* passes to it.
generate_waypoints_parameters ==
    {"survey_area_geojson", "altitude_m", "overlap_percentage",
     "pattern_type"}

plan_mission_keywords ==
    {"survey_area_geojson", "altitude_m", "overlap_percentage",
     "survey_pattern"}

\* A call binds when every required parameter gets a value; a keyword that
\* names no parameter goes to **kwargs.  Otherwise it raises TypeError.
call_binds(keywords, parameters) == parameters \subseteq keywords

\* The methods of WaypointGenerator that the planner calls by name.
WaypointGeneratorMethods ==
    {"generate_waypoints", "estimate_mission_duration", "validate_waypoints"}

\* MissionPlanner.plan_mission: "invalid" and "failed" are answers with
\* success False, "raised" leaves plan_mission by an exception, "planned"
\* is the answer with waypoints.
plan_mission(in) ==
    IF ~validate_mission_parameters(in) THEN "invalid"
    ELSE IF ~call_binds(plan_mission_keywords, generate_waypoints_parameters)
    THEN "failed"
    ELSE IF "calculate_estimated_duration" \notin WaypointGeneratorMethods
    THEN "raised"
    ELSE "planned"

\* SurveyPattern(data['survey_pattern']) raises ValueError for a value that
\* is not in the enumeration.
SurveyPatterns == {"crosshatch", "grid", "perimeter"}

\* POST /missions.  The mission row is added and flushed, the waypoints and
\* the log entry are added, and one commit stores them; an exception on
\* the way rolls the session back.
create_mission(in) ==
    LET planning_result == plan_mission(in) IN
    IF ~in.body THEN [code |-> 400, stored |-> NothingStored]
    ELSE IF planning_result \in {"invalid", "failed"}
    THEN [code |-> 400, stored |-> NothingStored]
    ELSE IF planning_result = "raised"
    THEN [code |-> 500, stored |-> NothingStored]
    ELSE IF in.survey_pattern \notin SurveyPatterns
    THEN [code |-> 400, stored |-> NothingStored]
    ELSE IF in.db_failure \in {"flush", "commit"}
    THEN [code |-> 500, stored |-> NothingStored]
    ELSE [code |-> 201, stored |-> AllStored]

CreateMission ==
    /\ crt.pc = "called"
    /\ LET response == create_mission(crt.input) IN
       crt' = [crt EXCEPT !.pc = "done", !.code = response.code,
                          !.stored = response.stored]
    /\ UNCHANGED <<dbVars, simVars, cb, gen, ws, am, hc, seed, fleet, cfg, mon, operator>>


\* ------------------------------------------------- background monitoring
\* MonitoringSystem.start_monitoring, stop_monitoring and the threads that
\* run _monitoring_loop.  Time is counted in steps of ClockStep seconds.
MaxLoops == 3
Loops == 1..MaxLoops
NoThread == 0
join_timeout == 5
ClockStep == 5
MaxMonClock == 60

\* MonitoringSystem.__init__ without an app: no thread, flag down.
MonInit ==
    [monitoring_active |-> FALSE,
     monitoring_thread |-> NoThread,
     loop |-> [i \in Loops |-> [pc |-> "unstarted", left |-> 0]],
     caller |-> "idle",
     waited |-> 0]

\* Thread.is_alive: started and not yet returned from _monitoring_loop.
is_alive(mn, i) == mn.loop[i].pc \in {"test", "sleep"}

RunningLoops(mn) == {i \in Loops : is_alive(mn, i)}

Unstarted(mn) == {i \in Loops : mn.loop[i].pc = "unstarted"}

\* start_monitoring: a new thread unless the flag is up.
start_monitoring(mn) ==
    IF mn.monitoring_active THEN mn
    ELSE LET i == CHOOSE i \in Unstarted(mn) :
                     \A j \in Unstarted(mn) : i <= j
         IN  [mn EXCEPT !.monitoring_active = TRUE,
                        !.monitoring_thread = i,
                        !.loop[i].pc = "test"]

MonStep(mn) ==
    /\ mon' = mn
    /\ UNCHANGED <<dbVars, simVars, cb, gen, ws, am, hc, seed, fleet, cfg, crt, operator>>

StartMonitoring ==
    /\ mon.caller = "idle"
    /\ Unstarted(mon) # {}
    /\ MonStep(start_monitoring(mon))

\* stop_monitoring: the flag goes down, then the caller joins the thread
\* of the last start for at most join_timeout seconds.
StopMonitoring ==
    /\ mon.caller = "idle"
    /\ MonStep([mon EXCEPT !.monitoring_active = FALSE,
                           !.caller = IF mon.monitoring_thread # NoThread
                                      THEN "joining" ELSE "idle",
                           !.waited = 0])

\* join(timeout=5) returns when the thread has ended or the time is up.
JoinReturns ==
    /\ mon.caller = "joining"
    /\ \/ ~is_alive(mon, mon.monitoring_thread)
       \/ mon.waited >= join_timeout
    /\ MonStep([mon EXCEPT !.caller = "idle"])

\* _monitoring_loop: the flag is up, one pass and then the sleep.  A pass
\* that raises is caught and followed by the same sleep.
LoopPass(i) ==
    /\ mon.loop[i].pc = "test"
    /\ mon.monitoring_active
    /\ am.passes < MaxPasses
    /\ mon' = [mon EXCEPT !.loop[i] =
                             [pc |-> "sleep", left |-> monitoring_interval]]
    /\ am' = [check_alerts(am) EXCEPT !.passes = @ + 1]
    /\ UNCHANGED <<dbVars, simVars, cb, gen, ws, hc, seed, fleet, cfg, crt, operator>>

\* _monitoring_loop: the flag is down at the while test, the thread ends.
LoopExit(i) ==
    /\ mon.loop[i].pc = "test"
    /\ ~mon.monitoring_active
    /\ MonStep([mon EXCEPT !.loop[i].pc = "exited"])

\* time.sleep(30) returns.
LoopWake(i) ==
    /\ mon.loop[i].pc = "sleep"
    /\ mon.loop[i].left = 0
    /\ MonStep([mon EXCEPT !.loop[i].pc = "test"])

\* ClockStep seconds pass for the sleeping threads and the joining caller.
MonTimePasses ==
    /\ \/ \E i \in Loops : mon.loop[i].pc = "sleep" /\ mon.loop[i].left > 0
       \/ mon.caller = "joining" /\ mon.waited < join_timeout
    /\ ~(mon.caller = "joining" /\ mon.waited >= join_timeout)
    /\ am.now < MaxMonClock
    /\ mon' = [mon EXCEPT
                 !.loop = [i \in Loops |->
                             IF mon.loop[i].pc = "sleep"
                             THEN [mon.loop[i] EXCEPT
                                      !.left = Max(0, @ - ClockStep)]
                             ELSE mon.loop[i]],
                 !.waited = IF mon.caller = "joining"
                            THEN @ + ClockStep ELSE @]
    /\ am' = [am EXCEPT !.now = @ + ClockStep]
    /\ UNCHANGED <<dbVars, simVars, cb, gen, ws, hc, seed, fleet, cfg, crt, operator>>


\* ------------------------------------------------------------- operator
\* The operator sends requests until a moment, between two iterations of
\* the simulator, after which none arrives.  The missions that are then in
\* progress on a stored drone are remembered.
OperatorPresent == [gone |-> FALSE, unattended |-> {}]

OperatorLeaves ==
    /\ ~operator.gone
    /\ sim_pc = "idle"
    /\ operator' = [gone |-> TRUE,
                    unattended |->
                        {m \in get_active_missions :
                            drone[mission[m].drone_id].exists}]
    /\ UNCHANGED <<dbVars, simVars, cb, gen, ws, am, hc, seed, fleet, cfg, crt, mon>>

\* ------------------------------------------------------- specifications
InitDatabase ==
    /\ drone \in [Drones ->
                    {[exists |-> TRUE, status |-> "available",
                      battery |-> b, pos |-> NoPos] : b \in InitialBatteries}]
    /\ mission \in [Missions ->
                      {[exists |-> TRUE, status |-> "planned", drone_id |-> d,
                        progress |-> 0, current_waypoint |-> 0, reason |-> NoReason]
                       : d \in Drones \cup {NoDrone}}]
    /\ waypoint = [m \in Missions |-> [k \in WaypointOrders |-> FALSE]]
    /\ mission_log = [m \in Missions |-> <<>>]

InitSimulator ==
    /\ active_flights = [d \in Drones |-> NoFlight]
    /\ flight_keys = <<>>
    /\ sim_pc = "idle"
    /\ sim_todo = <<>>
    /\ sim_seen = NoSeen
    /\ completed_flights = {}
    /\ emitted = [m \in Missions |-> 0]
    /\ aborted_at_tick = {}

\* No service has been called.
InitServices ==
    /\ gen = GenIdle
    /\ ws = WSInit
    /\ am = AMInit
    /\ hc = HCInit
    /\ seed = SeedIdle
    /\ fleet = FleetIdle
    /\ cfg = ConfigIdle
    /\ crt = CreateIdle
    /\ mon = MonInit
    /\ operator = OperatorPresent

Init ==
    /\ InitDatabase
    /\ InitSimulator
    /\ cb = CircuitBreakerInit
    /\ InitServices

MissionApi ==
    \E m \in Missions :
        \/ StartMission(m)
        \/ PauseMission(m)
        \/ ResumeMission(m)
        \/ AbortMission(m)
        \/ DeleteMission(m)

DroneApi ==
    \E d \in Drones :
        \/ DeleteDrone(d)
        \/ \E s \in DroneStatuses : UpdateDroneStatus(d, s)

Api == MissionApi \/ DroneApi

Simulator ==
    \/ SimDiscover
    \/ SimLoad
    \/ \E t \in ElapsedChoices : SimApply(t)
    \/ SimRemove

Next == Api \/ Simulator

Spec == Init /\ [][Next]_vars

NextCB ==
    \/ \E o \in Outcomes : CBCall(o)
    \/ \E dt \in ClockSteps : CBAdvanceClock(dt)

\* The mission endpoints beside the simulator, which remembers at the
\* beginning of each iteration the missions that are stored as aborted.
SimulatorAfterAbort ==
    \/ SimDiscoverAfterAbort
    \/ SimLoad
    \/ \E t \in ElapsedChoices : SimApply(t)
    \/ SimRemove

NextAbort == MissionApi \/ SimulatorAfterAbort

SpecAbort == Init /\ [][NextAbort]_vars


\* One stored mission whose drone is parked 4 m short of the second
\* waypoint, the simulator with ticks that may come late
\* (time_elapsed is the wall clock since the flight's last update), the
\* mission endpoints and the battery endpoint.
LongElapsedChoices == {0, 5, 300}
FlightBatteries == {3300}
FlightStartPos == 106

InitFlight ==
    /\ drone = [d \in Drones |->
                  [exists |-> TRUE, status |-> "available",
                   battery |-> CHOOSE b \in FlightBatteries : TRUE,
                   pos |-> FlightStartPos]]
    /\ mission = [m \in Missions |->
                    IF m = 1
                    THEN [exists |-> TRUE, status |-> "planned",
                          drone_id |-> 1, progress |-> 0,
                          current_waypoint |-> 0, reason |-> NoReason]
                    ELSE DeletedMission]
    /\ waypoint = [m \in Missions |-> [k \in WaypointOrders |-> FALSE]]
    /\ mission_log = [m \in Missions |-> <<>>]
    /\ InitSimulator
    /\ cb = CircuitBreakerInit
    /\ InitServices

SimulatorLate ==
    \/ SimDiscover
    \/ SimLoad
    \/ \E t \in LongElapsedChoices : SimApply(t)
    \/ SimRemove

BatteryApi ==
    \E d \in Drones, b \in BatteryInputs : UpdateDroneBattery(d, b)

NextFlight == MissionApi \/ BatteryApi \/ SimulatorLate

SpecFlight == InitFlight /\ [][NextFlight]_vars

\* An untouched database and an idle simulator and circuit breaker, beside
\* the service a specification is about.
InitQuiet ==
    /\ drone = [d \in Drones |->
                  [exists |-> TRUE, status |-> "available",
                   battery |-> FullBattery, pos |-> NoPos]]
    /\ mission = [m \in Missions |->
                    [exists |-> TRUE, status |-> "planned",
                     drone_id |-> NoDrone, progress |-> 0,
                     current_waypoint |-> 0, reason |-> NoReason]]
    /\ waypoint = [m \in Missions |-> [k \in WaypointOrders |-> FALSE]]
    /\ mission_log = [m \in Missions |-> <<>>]
    /\ InitSimulator
    /\ cb = CircuitBreakerInit

\* One call of generate_waypoints, for every input.
InitGen ==
    /\ InitQuiet
    /\ gen \in {[GenIdle EXCEPT !.pc = "called", !.input = in] :
                   in \in GeneratorInputs}
    /\ ws = WSInit
    /\ am = AMInit
    /\ hc = HCInit
    /\ seed = SeedIdle
    /\ fleet = FleetIdle
    /\ cfg = ConfigIdle
    /\ crt = CreateIdle
    /\ mon = MonInit
    /\ operator = OperatorPresent

NextGen == GenerateWaypoints

SpecGen == InitGen /\ [][NextGen]_vars

\* The WebSocket layer: clients connect, subscribe and unsubscribe, and
\* the simulator posts events to /emit.
InitWS ==
    /\ InitQuiet
    /\ InitServices

NextWS ==
    \/ InitWebsockets
    \/ \E c \in Clients :
         \/ Connect(c)
         \/ Disconnect(c)
         \/ \E id \in Missions \cup {NoId} :
              \/ SubscribeToMission(c, id)
              \/ UnsubscribeFromMission(c, id)
         \/ \E id \in Drones \cup {NoId} :
              \/ SubscribeToDrone(c, id)
              \/ UnsubscribeFromDrone(c, id)
    \/ \E e \in EmitEvents \cup {""}, id \in Drones \cup {NoId} :
         PostEmit(e, id)

SpecWS == InitWS /\ [][NextWS]_vars

\* The alert manager: passes of the monitoring loop, time between them
\* and conditions that come and go.
InitAlerts ==
    /\ InitQuiet
    /\ InitServices

NextAlerts ==
    \/ AlertPass
    \/ AlertSleep
    \/ AlertQuietDay
    \/ \E r \in Rules, o \in ConditionOutcomes : ConditionChanges(r, o)

SpecAlerts == InitAlerts /\ [][NextAlerts]_vars

\* The health checker: checks are registered and run.
InitHealth ==
    /\ InitQuiet
    /\ InitServices

NextHealth ==
    \/ \E n \in CheckNames, b \in CheckBehaviours : RegisterCheck(n, b)
    \/ RunAllChecks

SpecHealth == InitHealth /\ [][NextHealth]_vars

\* The demo seeding script, run once on a development database.
InitSeed ==
    /\ InitQuiet
    /\ gen = GenIdle
    /\ ws = WSInit
    /\ am = AMInit
    /\ hc = HCInit
    /\ seed \in {SeedStarted(d) : d \in SeedDatabases}
    /\ fleet = FleetIdle
    /\ cfg = ConfigIdle
    /\ crt = CreateIdle
    /\ mon = MonInit
    /\ operator = OperatorPresent

NextSeed ==
    \/ SeedEnsureDrones
    \/ SeedCreateMission1
    \/ SeedCreateMission2
    \/ SeedStartMission1
    \/ SeedStartMission2
    \/ SeedRaise

SpecSeed == InitSeed /\ [][NextSeed]_vars


\* One fleet-optimization request.
InitFleet ==
    /\ InitQuiet
    /\ gen = GenIdle
    /\ ws = WSInit
    /\ am = AMInit
    /\ hc = HCInit
    /\ seed = SeedIdle
    /\ fleet \in {FleetCalled(req) : req \in FleetRequests}
    /\ cfg = ConfigIdle
    /\ crt = CreateIdle
    /\ mon = MonInit
    /\ operator = OperatorPresent

NextFleet ==
    \/ FleetAssign
    \/ FleetSkip
    \/ FleetRespond
    \/ FleetRaise

SpecFleet == InitFleet /\ [][NextFleet]_vars


\* One construction of the configuration.
InitConfig ==
    /\ InitQuiet
    /\ gen = GenIdle
    /\ ws = WSInit
    /\ am = AMInit
    /\ hc = HCInit
    /\ seed = SeedIdle
    /\ fleet = FleetIdle
    /\ cfg \in {[ConfigIdle EXCEPT !.pc = "called", !.input = in] :
                   in \in ConfigInputs}
    /\ crt = CreateIdle
    /\ mon = MonInit
    /\ operator = OperatorPresent

NextConfig == ConstructConfig

SpecConfig == InitConfig /\ [][NextConfig]_vars


\* One create-mission request.
InitCreate ==
    /\ InitQuiet
    /\ gen = GenIdle
    /\ ws = WSInit
    /\ am = AMInit
    /\ hc = HCInit
    /\ seed = SeedIdle
    /\ fleet = FleetIdle
    /\ cfg = ConfigIdle
    /\ crt \in {[CreateIdle EXCEPT !.pc = "called", !.input = in] :
                   in \in CreateInputs}
    /\ mon = MonInit
    /\ operator = OperatorPresent

NextCreate == CreateMission

SpecCreate == InitCreate /\ [][NextCreate]_vars


\* Background monitoring: calls of start and stop, one after the other,
\* beside the threads they started.
InitMon ==
    /\ InitQuiet
    /\ InitServices

NextMon ==
    \/ StartMonitoring
    \/ StopMonitoring
    \/ JoinReturns
    \/ \E i \in Loops : LoopPass(i)
    \/ \E i \in Loops : LoopExit(i)
    \/ \E i \in Loops : LoopWake(i)
    \/ MonTimePasses

SpecMon == InitMon /\ [][NextMon]_vars


\* The API while the operator is present, beside a simulator whose loop
\* keeps running: `while self.running`, one iteration after each sleep, every
\* update with a positive time_elapsed.
PositiveElapsed == ElapsedChoices \ {0}

SimulatorTicking ==
    \/ SimDiscover
    \/ SimLoad
    \/ \E t \in PositiveElapsed : SimApply(t)
    \/ SimRemove

\* The operator's requests: the mission endpoints, and the drone's status
\* set back to available, which lets a second mission start on it.
ApiWhilePresent ==
    /\ ~operator.gone
    /\ \/ MissionApi
       \/ \E d \in Drones : UpdateDroneStatus(d, "available")

\* Every mission is planned for the drone.
InitLive ==
    /\ drone \in [Drones ->
                    {[exists |-> TRUE, status |-> "available",
                      battery |-> b, pos |-> NoPos] : b \in InitialBatteries}]
    /\ mission = [m \in Missions |->
                    [exists |-> TRUE, status |-> "planned", drone_id |-> 1,
                     progress |-> 0, current_waypoint |-> 0,
                     reason |-> NoReason]]
    /\ waypoint = [m \in Missions |-> [k \in WaypointOrders |-> FALSE]]
    /\ mission_log = [m \in Missions |-> <<>>]
    /\ InitSimulator
    /\ cb = CircuitBreakerInit
    /\ InitServices

NextLive == ApiWhilePresent \/ OperatorLeaves \/ SimulatorTicking

SpecLive == InitLive /\ [][NextLive]_vars /\ WF_vars(SimulatorTicking)


\* The circuit breaker alone, beside an untouched database.
InitCB ==
    /\ drone = [d \in Drones |->
                  [exists |-> TRUE, status |-> "available",
                   battery |-> FullBattery, pos |-> NoPos]]
    /\ mission = [m \in Missions |->
                    [exists |-> TRUE, status |-> "planned",
                     drone_id |-> NoDrone, progress |-> 0,
                     current_waypoint |-> 0, reason |-> NoReason]]
    /\ waypoint = [m \in Missions |-> [k \in WaypointOrders |-> FALSE]]
    /\ mission_log = [m \in Missions |-> <<>>]
    /\ InitSimulator
    /\ cb = CircuitBreakerInit
    /\ InitServices

SpecCB == InitCB /\ [][NextCB]_vars

\* ----------------------------------------------------------- properties
ActiveStatuses == {"in-progress", "paused"}
TerminalStatuses == {"completed", "aborted"}
CriticalBatteryReason == "Critical battery - emergency landing"

\* C1: a start on a mission that is not planned, a pause on one that is not
\* in-progress, a resume on one that is not paused and an abort on one that
\* is neither in-progress nor paused are each answered with a 4xx code, and
\* the handler commits nothing: missions, drones, waypoints and logs stay
\* as they were.
C1_RejectedTransitionsChangeNothing ==
    \A m \in Missions :
        mission[m].exists =>
            /\ mission[m].status # "planned" =>
                   /\ start_mission(m).code \in 400..499
                   /\ start_mission(m).db = Database
            /\ mission[m].status # "in-progress" =>
                   /\ pause_mission(m).code \in 400..499
                   /\ pause_mission(m).db = Database
            /\ mission[m].status # "paused" =>
                   /\ resume_mission(m).code \in 400..499
                   /\ resume_mission(m).db = Database
            /\ mission[m].status \notin ActiveStatuses =>
                   /\ abort_mission(m).code \in 400..499
                   /\ abort_mission(m).db = Database

\* A mission the simulator completed and whose log was written: all four
\* requests on it are rejected.
C1_Witness ==
    \E m \in Missions :
        /\ mission[m].exists
        /\ mission[m].status = "completed"
        /\ mission_log[m] # <<>>
        /\ start_mission(m).code = 400
        /\ pause_mission(m).code = 400
        /\ resume_mission(m).code = 400
        /\ abort_mission(m).code = 400

ActiveMissionsOf(d) ==
    {m \in Missions : /\ mission[m].exists
                      /\ mission[m].drone_id = d
                      /\ mission[m].status \in ActiveStatuses}

\* C2: a stored drone is in-mission if and only if exactly one in-progress
\* or paused mission references it.
C2_InMissionIffOneActiveMission ==
    \A d \in Drones :
        drone[d].exists =>
            (drone[d].status = "in-mission"
                <=> Cardinality(ActiveMissionsOf(d)) = 1)

\* C3: a stored mission that is completed or aborted keeps that status in
\* every step, for as long as it is stored.
C3_TerminalStatusIsFinal ==
    [][\A m \in Missions :
          (/\ mission[m].exists
           /\ mission[m].status \in TerminalStatuses
           /\ mission'[m].exists)
          => mission'[m].status = mission[m].status]_vars

\* C4: a start request answered with 200 found the mission planned, with a
\* drone assigned, stored and available, and its one commit leaves the
\* mission in-progress and that drone in-mission.
C4_StartNeedsAvailableDrone ==
    \A m \in Missions :
        LET r == start_mission(m)
            d == mission[m].drone_id
        IN r.code = 200 =>
              /\ mission[m].exists
              /\ mission[m].status = "planned"
              /\ d \in Drones
              /\ drone[d].exists
              /\ drone[d].status = "available"
              /\ r.db.mission[m].status = "in-progress"
              /\ r.db.drone[d].status = "in-mission"

\* A mission that was started: in-progress, its drone in-mission, and the
\* start the only entry of its log.
C4_Witness ==
    \E m \in Missions :
        /\ mission[m].exists
        /\ mission[m].status = "in-progress"
        /\ mission_log[m] = <<"started">>
        /\ MissionDrone(m) # NoDrone
        /\ drone[MissionDrone(m)].status = "in-mission"

\* C5: an abort request answered with 200 leaves the mission aborted and
\* its stored drone available; and a simulator step that posts the
\* emergency alert and finds the mission stored leaves the mission aborted
\* and its stored drone available.
C5_AbortReleasesDrone ==
    /\ [](\A m \in Missions :
            LET r == abort_mission(m)
                d == mission[m].drone_id
            IN r.code = 200 =>
                  /\ mission[m].status \in ActiveStatuses
                  /\ r.db.mission[m].status = "aborted"
                  /\ (d \in Drones /\ drone[d].exists)
                        => r.db.drone[d].status = "available")
    /\ [][\A m \in Missions :
            (emitted'[m] # emitted[m] /\ mission[m].exists) =>
                /\ mission'[m].status = "aborted"
                /\ \A d \in Drones :
                     (mission[m].drone_id = d /\ drone[d].exists)
                        => drone'[d].status = "available"]_vars

\* One mission aborted by the operator and another by the simulator, the
\* drone available afterwards.
C5_Witness ==
    \E m1, m2 \in Missions :
        /\ mission[m1].exists /\ mission[m2].exists
        /\ mission[m1].status = "aborted"
        /\ mission[m1].reason = NoReason
        /\ mission_log[m1] = <<"started", "aborted">>
        /\ mission[m2].status = "aborted"
        /\ mission[m2].reason = CriticalBatteryReason
        /\ emitted[m2] = 1
        /\ \A d \in Drones : drone[d].exists /\ drone[d].status = "available"

\* C10: a delete request for a stored drone whose status is in-mission is
\* answered with 409 and commits nothing, so the drone row keeps every
\* field.
C10_DeleteInMissionDroneRejected ==
    \A d \in Drones :
        (drone[d].exists /\ drone[d].status = "in-mission") =>
            /\ delete_drone(d).code = 409
            /\ delete_drone(d).db = Database

\* A drone flying a started mission, whose deletion is refused.
C10_Witness ==
    \E d \in Drones :
        /\ drone[d].exists
        /\ drone[d].status = "in-mission"
        /\ get_current_mission(d) # {}
        /\ active_flights[d].tracked
        /\ delete_drone(d).code = 409

\* The simulator step that ends one update_flight_state call for drone d.
SimApplyStepOf(d) ==
    /\ sim_pc = "apply"
    /\ sim_seen.drone_id = d
    /\ sim_pc' = "update"

\* What the critical-battery branch does to mission m and the flight of d.
EmergencyOutcome(d, m) ==
    /\ emitted'[m] = emitted[m] + 1
    /\ mission'[m].exists =>
          /\ mission'[m].status = "aborted"
          /\ mission'[m].reason = CriticalBatteryReason
    /\ d \in completed_flights'

RejectedInWindow ==
    (/\ cb.last.kind # "none"
     /\ cb.last.pre_state = "OPEN"
     /\ cb.last.since < recovery_timeout)
    => (cb.last.kind = "rejected" /\ ~cb.last.invoked)

\* C7: with threshold 5 and timeout 60, five consecutive failures of the
\* wrapped function leave the circuit open; a call that finds the circuit
\* open less than 60 s after the last failure is rejected and the wrapped
\* function is not invoked; a call that finds it open 60 s or more after
\* the last failure invokes the wrapped function.
C7_OpensAfterFiveFailures ==
    /\ failure_threshold = 5
    /\ recovery_timeout = 60
    /\ cb.streak >= failure_threshold => cb.state = "OPEN"
    /\ cb.streak = failure_threshold - 1 => cb.state # "OPEN"
    /\ RejectedInWindow
    /\ (/\ cb.last.kind # "none"
        /\ cb.last.pre_state = "OPEN"
        /\ cb.last.since >= recovery_timeout)
       => (cb.last.kind = "call" /\ cb.last.invoked)

\* Five failures in a row opened the circuit, later calls were rejected in
\* the window, and the last call, made exactly 60 s after the fifth
\* failure, was let through and failed as the sixth.
C7_Witness ==
    /\ cb.streak = failure_threshold + 1
    /\ cb.last.pre_state = "OPEN"
    /\ cb.last.since = recovery_timeout
    /\ cb.last.invoked
    /\ cb.state = "OPEN"

\* C8: a call let through from the open state runs half-open, and only such
\* a call does; if it returns, the circuit is closed with failure count
\* zero; if it raises, the circuit is open again with the window restarted
\* at that call, and calls inside the window are rejected uninvoked.
C8_HalfOpenProbe ==
    /\ (cb.last.kind = "call" /\ cb.last.pre_state = "OPEN")
       <=> cb.last.ran_state = "HALF_OPEN"
    /\ (cb.last.ran_state = "HALF_OPEN" /\ cb.last.raised = "none")
       => (cb.state = "CLOSED" /\ cb.failure_count = 0)
    /\ (cb.last.ran_state = "HALF_OPEN" /\ cb.last.raised = "wrapped")
       => (cb.state = "OPEN" /\ cb.last_failure_time = cb.last.at)
    /\ RejectedInWindow
    /\ cb.state # "HALF_OPEN"

\* A half-open probe that succeeded and closed the circuit.
C8_Witness ==
    /\ cb.last.ran_state = "HALF_OPEN"
    /\ cb.last.raised = "none"
    /\ cb.last.since >= recovery_timeout
    /\ cb.state = "CLOSED"
    /\ cb.failure_count = 0

\* C9: every rejected call raises an ExternalServiceError whose retry_after
\* is the breaker's recovery timeout.
C9_RejectionRaisesExternalServiceError ==
    cb.last.kind = "rejected" =>
        /\ cb.last.raised = "ExternalServiceError"
        /\ cb.last.retry_after = recovery_timeout

\* C11: a delete request for a stored in-progress mission is answered with
\* 400 and commits nothing: the mission row, its waypoints and its log
\* entries stay as they were.
C11_DeleteInProgressMissionRejected ==
    \A m \in Missions :
        (mission[m].exists /\ mission[m].status = "in-progress") =>
            /\ delete_mission(m).code = 400
            /\ delete_mission(m).db = Database

\* An in-progress mission with a completed waypoint and a log entry, whose
\* deletion is refused.
C11_Witness ==
    \E m \in Missions :
        /\ mission[m].exists
        /\ mission[m].status = "in-progress"
        /\ \E k \in WaypointOrders : waypoint[m][k]
        /\ mission_log[m] # <<>>
        /\ delete_mission(m).code = 400

\* C12: a request for maintenance on a stored drone that an in-progress
\* mission references is answered with 409 and commits nothing, and no
\* stored drone is in maintenance while an in-progress mission references
\* it.
C12_NoMaintenanceDuringMission ==
    \A d \in Drones :
        (drone[d].exists /\ get_current_mission(d) # {}) =>
            /\ update_drone_status(d, "maintenance").code = 409
            /\ update_drone_status(d, "maintenance").db = Database
            /\ drone[d].status # "maintenance"

\* The flight of d has a target waypoint and is within 5 m of it.
NearTarget(d) ==
    /\ active_flights[d].tracked
    /\ active_flights[d].target_waypoint_index < NumWaypoints
    /\ Abs(active_flights[d].pos
           - WaypointPos(active_flights[d].target_waypoint_index))
          <= ArrivalRadius

\* C13: a tick that loads the mission in-progress, for a flight with
\* battery above 5% that is within 5 m of its target waypoint, makes the
\* target the current waypoint, advances the target pointer by one and
\* (the mission still being stored at the commit) marks that waypoint
\* completed, for every elapsed time.
C13_ArrivalWithinFiveMetres ==
    [][\A d \in Drones :
          (/\ SimApplyStepOf(d)
           /\ sim_seen.mission_exists
           /\ sim_seen.drone_exists
           /\ sim_seen.status = "in-progress"
           /\ active_flights[d].battery > EmergencyBattery
           /\ NearTarget(d))
          => LET fs == active_flights[d]
                 m == fs.mission_id
                 target == fs.target_waypoint_index
             IN /\ active_flights'[d].current_waypoint_index = target
                /\ active_flights'[d].target_waypoint_index = target + 1
                /\ active_flights'[d].pos = fs.pos
                /\ mission'[m].exists => waypoint'[m][target]]_vars

\* The drone still 4 m short of the second waypoint, which a tick that came
\* 300 s late (the drain shows it) has marked completed.
C13_Witness ==
    \E d \in Drones :
        /\ active_flights[d].tracked
        /\ active_flights[d].pos = FlightStartPos
        /\ Abs(FlightStartPos - WaypointPos(1)) = 4
        /\ active_flights[d].current_waypoint_index = 1
        /\ active_flights[d].target_waypoint_index = 2
        /\ active_flights[d].battery < EmergencyBattery
        /\ waypoint[active_flights[d].mission_id][1]

\* C14: the stored battery of every stored drone is between 0 and 100
\* percent.
C14_BatteryWithinRange ==
    \A d \in Drones :
        drone[d].exists =>
            (drone[d].battery >= 0 /\ drone[d].battery <= FullBattery)

\* The list starts with the takeoff at the flight altitude, ends with the
\* landing on the ground, and numbers the survey waypoints between them
\* 1..N.
TakeoffSurveyLanding(waypoints, altitude_m) ==
    /\ Len(waypoints) >= 2
    /\ waypoints[1].order = 0
    /\ waypoints[1].action = "takeoff"
    /\ waypoints[1].altitude = altitude_m
    /\ waypoints[Len(waypoints)].action = "land"
    /\ waypoints[Len(waypoints)].altitude = 0
    /\ \A i \in 2..(Len(waypoints) - 1) :
          /\ waypoints[i].order = i - 1
          /\ waypoints[i].action \notin {"takeoff", "land"}

\* C15: every non-empty waypoint list that generate_waypoints returns
\* starts with order 0, takeoff, at the flight altitude, ends with land at
\* altitude 0, and numbers the survey waypoints in between 1..N.
C15_NonEmptyListsAreOrdered ==
    (gen.pc = "returned" /\ gen.raised = "none" /\ gen.waypoints # <<>>)
    => TakeoffSurveyLanding(gen.waypoints, gen.input.altitude_m)

\* A returned list of takeoff, three survey waypoints and landing.
C15_Witness ==
    /\ gen.pc = "returned"
    /\ gen.raised = "none"
    /\ Len(gen.waypoints) = MaxSurveyPoints + 2
    /\ gen.waypoints[MaxSurveyPoints + 1].order = MaxSurveyPoints
    /\ gen.waypoints[MaxSurveyPoints + 2].action = "land"

\* C15 as stated: every list that generate_waypoints returns without
\* raising has the takeoff first, the landing last and the survey
\* waypoints numbered 1..N in between.
C15_EveryListIsOrdered ==
    (gen.pc = "returned" /\ gen.raised = "none")
    => TakeoffSurveyLanding(gen.waypoints, gen.input.altitude_m)

\* C16: a connected client's subscription list contains a mission's room
\* exactly when the client is joined to that room, and right after an
\* unsubscribe_from_mission the list does not contain that mission's room.
C16_SubscriptionListMatchesRooms ==
    /\ \A c \in Clients, m \in Missions :
          ws.connected[c] =>
              (InList(ws.subscriptions[c], MissionRoom(m))
                  <=> MissionRoom(m) \in ws.rooms[c])
    /\ (ws.last.name = "unsubscribe_from_mission" /\ ws.last.id # NoId)
       => ~InList(ws.subscriptions[ws.last.client], MissionRoom(ws.last.id))

\* C17: right after a client's unsubscribe_from_drone for a drone, the
\* client is not in that drone's room, its subscription list does not
\* contain the room, and a room-scoped update for the drone does not reach
\* it.
C17_UnsubscribeFromDroneLeavesRoom ==
    (ws.last.name = "unsubscribe_from_drone" /\ ws.last.id # NoId)
    => LET c == ws.last.client
           room == DroneRoom(ws.last.id)
       IN /\ room \notin ws.rooms[c]
          /\ ~InList(ws.subscriptions[c], room)
          /\ c \notin broadcast_drone_update(ws, ws.last.id).last.recipients

\* C18: a POST /emit naming an event that is none of the five dedicated
\* ones is answered with 200; with the WebSocket manager initialized the
\* event is emitted under its own name to every client, and without it
\* nothing is emitted and the warning is logged.
C18_GenericEmit ==
    \A e \in EmitEvents \ DedicatedEvents, id \in Drones \cup {NoId} :
        LET r == emit_websocket_event(ws, e, id).last
        IN /\ r.code = 200
           /\ r.name = e
           /\ ws.initialized => (r.broadcast /\ ~r.warning)
           /\ ~ws.initialized => (~r.broadcast /\ r.warning)
           /\ r.recipients = {}

\* A generic event posted before init_websockets: dropped with the warning
\* and answered 200.
C18_Witness ==
    /\ ~ws.initialized
    /\ ws.last.name \in EmitEvents \ DedicatedEvents
    /\ ws.last.code = 200
    /\ ws.last.warning
    /\ ~ws.last.broadcast


\* The cooldown of rule r has run out: it never triggered, or at least its
\* cooldown in seconds lies between its last trigger and now.
CooldownElapsed(r) ==
    \/ am.last_triggered[r] = NeverTriggered
    \/ am.now - am.last_triggered[r] >= default_cooldown

\* Rule r was triggered by the pass just made: a new history entry with its
\* name and the time of the pass, and its name among the active alerts.
TriggeredByPass(r) ==
    /\ r \in am'.active_alerts
    /\ \E i \in (Len(am.alert_history) + 1)..Len(am'.alert_history) :
          am'.alert_history[i] = [name |-> r, timestamp |-> am.now]

\* C19: on each evaluation pass, every rule whose condition is true and
\* whose cooldown has elapsed since it last triggered is triggered (a new
\* history entry, and an entry in the active alerts), and every rule whose
\* condition is false has no entry in the active alerts afterwards.
C19_EvaluationPass ==
    [][(am.pc = "check" /\ am'.pc = "sleep") =>
          \A r \in Rules :
             /\ (am.condition[r] = "true" /\ CooldownElapsed(r))
                   => TriggeredByPass(r)
             /\ am.condition[r] = "false" => r \notin am'.active_alerts]_vars

\* Every check that has a result is healthy.
AllHealthy == \A n \in CheckNames : hc.results[n] \in {"none", "healthy"}

\* Some check's result is unhealthy.
SomeUnhealthy == \E n \in CheckNames : hc.results[n] = "unhealthy"

\* C20 as stated: for every set of checks, the empty one too, the overall
\* status after a run is healthy only if all are healthy, unhealthy if one
\* is unhealthy, and degraded whenever it is neither healthy nor unhealthy.
C20_EveryCheckSet ==
    hc.last = "run" =>
        /\ get_overall_status(hc) = "healthy" => AllHealthy
        /\ SomeUnhealthy => get_overall_status(hc) = "unhealthy"
        /\ get_overall_status(hc) \notin {"healthy", "unhealthy"}
              => get_overall_status(hc) = "degraded"

\* C20: for every non-empty set of check results, the overall status is
\* healthy exactly if all checks are healthy, unhealthy exactly if at least
\* one check is unhealthy, and degraded in every other case.
C20_OverallStatus ==
    ResultStatuses(hc) # {} =>
        /\ get_overall_status(hc) = "healthy" <=> AllHealthy
        /\ get_overall_status(hc) = "unhealthy" <=> SomeUnhealthy
        /\ get_overall_status(hc) = "degraded"
              <=> (~AllHealthy /\ ~SomeUnhealthy)

\* One healthy and one degraded check have run: the system is degraded.
C20_Witness ==
    /\ hc.last = "run"
    /\ \E n1, n2 \in CheckNames :
          /\ hc.results[n1] = "healthy"
          /\ hc.results[n2] = "degraded"
    /\ get_overall_status(hc) = "degraded"


\* C21: when the demo seeding run reports an error, the database holds
\* none of the drones, missions, waypoints or starts the run created: it
\* is the database the run found.
C21_FailedSeedingLeavesNothing ==
    seed.result = "error" => seed.db = seed.before


\* The place of mission id m in the list of missions of the request.
PlaceInBatch(m) ==
    CHOOSE i \in DOMAIN fleet.missions : fleet.missions[i] = m

\* C22: within one batch the assignments follow the order of the missions,
\* a drone that was selected is no longer in the pool, and no drone is
\* assigned to two missions of the batch.
C22_OneMissionPerDrone ==
    LET a == fleet.optimized_assignments IN
    /\ \A i, j \in DOMAIN a :
          i < j =>
            /\ PlaceInBatch(a[i].mission_id) < PlaceInBatch(a[j].mission_id)
            /\ a[i].recommended_drone_id # a[j].recommended_drone_id
    /\ \A i \in DOMAIN a :
          /\ PlaceInBatch(a[i].mission_id) < fleet.next
          /\ \A k \in DOMAIN fleet.available_drones :
                drone_id_str(fleet.available_drones[k])
                    # a[i].recommended_drone_id

\* Three missions and two drones: two assignments, the third mission left
\* without one.
C22_Witness ==
    /\ fleet.pc = "done"
    /\ fleet.code = 200
    /\ Len(fleet.missions) = 3
    /\ Len(fleet.optimized_assignments) = 2
    /\ fleet.available_drones = <<>>


\* The configuration that the construction is about to build, or built.
ConfigMaxAltitude ==
    NumberValue(cfg.input.max_altitude_m, default_max_altitude_m)
ConfigMinAltitude ==
    NumberValue(cfg.input.min_altitude_m, default_min_altitude_m)
ConfigBatteryLow ==
    NumberValue(cfg.input.battery_low_threshold,
                default_battery_low_threshold)
ConfigBatteryCritical ==
    NumberValue(cfg.input.battery_critical_threshold,
                default_battery_critical_threshold)

\* C23: the construction fails when the configuration's max_altitude_m is
\* at most its min_altitude_m, when its battery_critical_threshold is at
\* least its battery_low_threshold, and when debug is true in production.
C23_InvalidConfigurationFails ==
    cfg.pc = "done" =>
        /\ ConfigMaxAltitude <= ConfigMinAltitude => cfg.result = "error"
        /\ ConfigBatteryCritical >= ConfigBatteryLow => cfg.result = "error"
        /\ (/\ WordValue(cfg.input.debug, "False") = "True"
            /\ WordValue(cfg.input.environment, "development")
                  = "production")
              => cfg.result = "error"


\* A flight of mission m is tracked.
TrackedFlightOf(m) ==
    \E d \in Drones : /\ active_flights[d].tracked
                      /\ active_flights[d].mission_id = m

C25_CompletedInOrder ==
    [][\A m \in Missions, k \in WaypointOrders :
          (waypoint'[m][k] /\ ~waypoint[m][k]) =>
             \A j \in WaypointOrders : j < k => waypoint[m][j]]_vars


\* The request is one the endpoint has to carry out: a body whose fields
\* pass the planner's validation, with a survey pattern of the enumeration.
ValidCreateRequest ==
    /\ crt.input.body
    /\ validate_mission_parameters(crt.input)
    /\ crt.input.survey_pattern \in SurveyPatterns

C27_OneInProgressMissionPerDrone ==
    \A m1, m2 \in Missions :
        (/\ m1 # m2
         /\ mission[m1].exists /\ mission[m2].exists
         /\ mission[m1].status = "in-progress"
         /\ mission[m2].status = "in-progress"
         /\ mission[m1].drone_id # NoDrone)
            => mission[m1].drone_id # mission[m2].drone_id


\* C28: while a mission is stored, its progress percentage and its
\* current-waypoint pointer never decrease.
C28_ProgressNeverDecreases ==
    [][\A m \in Missions :
          (mission[m].exists /\ mission'[m].exists) =>
             /\ mission'[m].progress >= mission[m].progress
             /\ mission'[m].current_waypoint
                   >= mission[m].current_waypoint]_vars


\* C30: whatever calls of start_monitoring and stop_monitoring were made,
\* at most one thread is running the background monitoring loop.
C30_AtMostOneLoop == Cardinality(RunningLoops(mon)) <= 1


\* The operator is gone and mission m is in progress on a drone that is
\* stored.
FlyingUnattended(m) ==
    /\ operator.gone
    /\ m \in get_active_missions
    /\ drone[mission[m].drone_id].exists

\* Mission m is completed or aborted and no tracked flight is its flight.
EndedAndUntracked(m) ==
    /\ mission[m].status \in {"completed", "aborted"}
    /\ \A d \in Drones : ~(/\ active_flights[d].tracked
                           /\ active_flights[d].mission_id = m)

====
